---- MODULE Spec2Model ----
(***************************************************************************)
(* A model of pedalboard/io/AudioFile.h: ReadableAudioFile and             *)
(* WriteableAudioFile, the stream objects that move frames between numpy   *)
(* buffers and a JUCE reader / writer.                                     *)
(*                                                                         *)
(* Spec      one stream object driven by one caller; every method call is  *)
(*           one action (the whole method body, all exits included).       *)
(* ConcSpec  one stream object driven by two Python threads; the methods   *)
(*           are cut at the points where a thread can block or lets other  *)
(*           threads run: taking objectLock, releasing and re-taking the   *)
(*           interpreter lock (GIL).                                       *)
(***************************************************************************)
EXTENDS Integers, Sequences, FiniteSets, TLC

VARIABLES
  mode,             \* "r": the object is a ReadableAudioFile, "w": a WriteableAudioFile
  file,             \* what the JUCE reader / writer reports; fixed at construction
  reader,           \* ReadableAudioFile::reader is non-null
  currentPosition,  \* ReadableAudioFile::currentPosition (an int)
  writer,           \* WriteableAudioFile::writer is non-null
  framesWritten,    \* WriteableAudioFile::framesWritten (an int)
  quality,          \* WriteableAudioFile::quality (std::optional<std::string>)
  last,             \* Spec: the call that just returned, its result, the state before it
  gil,              \* ConcSpec: the thread holding the interpreter lock, or NoThread
  objectLock,       \* ConcSpec: juce::CriticalSection objectLock: owner and depth
  pc,               \* ConcSpec: where each thread stands
  tl,               \* ConcSpec: each thread's call and its locals
  history           \* ConcSpec: the calls that returned, in the order they returned

vars == <<mode, file, reader, currentPosition, writer, framesWritten, quality,
          last, gil, objectLock, pc, tl, history>>

streamVars == <<mode, file, reader, currentPosition, writer, framesWritten, quality>>
threadVars == <<gil, objectLock, pc, tl, history>>

(***************************************************************************)
(* Bounds of the model.                                                    *)
(***************************************************************************)
\* Width in bits of the C++ `int` that holds currentPosition and framesWritten.
\* The program's int has 32 bits; the model keeps the wrap-around of the
\* narrowing conversion and scales the width down so that frame counts on both
\* sides of INT_MAX can be enumerated.
IntBits == 4
\* Longest file, in frames, among the files that fit an int comfortably.
MaxShortLength == 3
\* Longest axis of an array handed to write().
MaxDim == 3

IntMax == 2 ^ (IntBits - 1) - 1
IntMin == -(2 ^ (IntBits - 1))

\* A file whose length in frames (a 64-bit count in the reader) exceeds INT_MAX.
LongLength == IntMax + 2

FileLengths == (0 .. MaxShortLength) \cup {LongLength}

\* Arguments tried for read(num_frames) / read_raw(num_frames).
FrameArgs == (-1 .. 2) \cup {MaxShortLength + 1}
\* Arguments tried for seek(position).
SeekArgs == (-1 .. MaxShortLength + 1) \cup (IntMax .. LongLength + 1)

(***************************************************************************)
(* Integer conversions.                                                    *)
(***************************************************************************)
\* Narrowing of a long long to int: the value modulo 2^IntBits, in
\* [IntMin, IntMax].
ToInt(x) == ((x - IntMin) % (2 ^ IntBits)) + IntMin

Min(a, b) == IF a < b THEN a ELSE b

(***************************************************************************)
(* The files and formats the backend may report.                           *)
(***************************************************************************)
ReaderFormats ==
  { [usesFloatingPointData |-> TRUE,  bitsPerSample |-> 32],
    [usesFloatingPointData |-> FALSE, bitsPerSample |-> 8],
    [usesFloatingPointData |-> FALSE, bitsPerSample |-> 16],
    [usesFloatingPointData |-> FALSE, bitsPerSample |-> 24],
    [usesFloatingPointData |-> FALSE, bitsPerSample |-> 32] }

ReaderFiles ==
  { [lengthInSamples |-> l, numChannels |-> c,
     usesFloatingPointData |-> f.usesFloatingPointData,
     bitsPerSample |-> f.bitsPerSample] :
       l \in FileLengths, c \in {1, 2}, f \in ReaderFormats }

WriterFiles ==
  { [lengthInSamples |-> 0, numChannels |-> c,
     usesFloatingPointData |-> f.usesFloatingPointData,
     bitsPerSample |-> f.bitsPerSample] :
       c \in {1, 2, 3},
       f \in { [usesFloatingPointData |-> TRUE,  bitsPerSample |-> 32],
               [usesFloatingPointData |-> FALSE, bitsPerSample |-> 16] } }

\* The value of WriteableAudioFile::quality after construction: the label of
\* the resolved option, or no value when the format has no quality options.
NoQuality == "None"
Qualities == {NoQuality, "320 kbps"}

(***************************************************************************)
(* Outcome of a method call: what it returns or throws, whether it reached *)
(* the backend, and the object's fields when it returns.                   *)
(***************************************************************************)
ReaderOutcome(result, value, io, rdr, pos) ==
  [result |-> result, value |-> value, io |-> io, handle |-> rdr, counter |-> pos]

ReaderThrows(result, io) == ReaderOutcome(result, 0, io, reader, currentPosition)

\* An outcome that returns an array of the element type dtype.
ReaderArray(dtype, value, io, rdr, pos) ==
  [dtype |-> dtype] @@ ReaderOutcome("ok", value, io, rdr, pos)

(***************************************************************************)
(* ReadableAudioFile.                                                      *)
(***************************************************************************)
DEFAULT_AUDIO_BUFFER_SIZE_FRAMES == 8192

\* numSamples = std::min(numSamples, reader->lengthInSamples - currentPosition)
ActualFrames(numSamples) == Min(numSamples, file.lengthInSamples - currentPosition)

\* The frame dimension of the returned array: py::array_t<T>({(int)numChannels,
\* (int)numSamples}).  numpy refuses a negative dimension, and the constructor
\* then throws (ValueError) before anything else is done.
ArrayFrames(numSamples) == ToInt(numSamples)

\* currentPosition += numSamples: the sum is formed in long long and narrowed
\* to the int currentPosition.
Advance(numSamples) == ToInt(currentPosition + numSamples)

\* The backend part of read(): reader->read for floating-point and 32-bit
\* files, else reader->readSamples and the per-depth scale factor.  ok is the
\* value the backend call returns.
ReadBackend(ok) ==
  IF file.usesFloatingPointData \/ file.bitsPerSample = 32
  THEN IF ok THEN "ok" ELSE "IOError"
  ELSE IF ~ok THEN "IOError"
       ELSE IF file.bitsPerSample \in {24, 16, 8} THEN "ok"
       ELSE "UnsupportedError"

\* Number of backend calls of a loop that walks numSamples frames in steps of
\* DEFAULT_AUDIO_BUFFER_SIZE_FRAMES.
NumChunks(numSamples) ==
  IF numSamples <= 0 THEN 0
  ELSE (numSamples + DEFAULT_AUDIO_BUFFER_SIZE_FRAMES - 1)
         \div DEFAULT_AUDIO_BUFFER_SIZE_FRAMES

\* read() with the closed-file check moved in front of the zero-frame check.
R_read_closedCheckFirst(numSamples, ok) ==
  IF ~reader THEN ReaderThrows("ClosedStreamError", FALSE)
  ELSE IF numSamples = 0 THEN ReaderThrows("ValidationError", FALSE)
  ELSE LET n == ActualFrames(numSamples) IN
       IF ArrayFrames(n) < 0 THEN ReaderThrows("ValueError", FALSE)
       ELSE IF ReadBackend(ok) # "ok" THEN ReaderThrows(ReadBackend(ok), TRUE)
       ELSE ReaderOutcome("ok", ArrayFrames(n), TRUE, reader, Advance(n))

\* read(numSamples).
R_read(numSamples, ok) ==
  IF numSamples = 0 THEN ReaderThrows("ValidationError", FALSE)
  ELSE IF ~reader THEN ReaderThrows("ClosedStreamError", FALSE)
  ELSE LET n == ActualFrames(numSamples) IN
       IF ArrayFrames(n) < 0 THEN ReaderThrows("ValueError", FALSE)
       ELSE IF ReadBackend(ok) # "ok" THEN ReaderThrows(ReadBackend(ok), TRUE)
       ELSE ReaderArray("float32", ArrayFrames(n), TRUE, reader, Advance(n))

\* readInteger<SampleType>(numSamples); sizeofSampleType is sizeof(SampleType).
R_readInteger(sizeofSampleType, numSamples, ok) ==
  IF file.usesFloatingPointData THEN ReaderThrows("FloatingPointFile", FALSE)
  ELSE LET n == ActualFrames(numSamples)
           dtype == CASE sizeofSampleType = 4 -> "int32"
                      [] sizeofSampleType = 2 -> "int16"
                      [] sizeofSampleType = 1 -> "int8"
       IN
       IF ArrayFrames(n) < 0 THEN ReaderThrows("ValueError", FALSE)
       ELSE IF file.bitsPerSample > 16
       THEN IF sizeofSampleType < 4 THEN ReaderThrows("TooNarrow", FALSE)
            ELSE IF ~ok THEN ReaderThrows("IOError", TRUE)
            ELSE ReaderArray(dtype, ArrayFrames(n), TRUE, reader, Advance(n))
       ELSE IF NumChunks(n) > 0 /\ ~ok THEN ReaderThrows("IOError", TRUE)
            ELSE ReaderArray(dtype, ArrayFrames(n), NumChunks(n) > 0, reader,
                             Advance(n))

\* readRaw() that reads every other depth as 32-bit integers.
R_readRaw_widest(numSamples, ok) ==
  IF numSamples = 0 THEN ReaderThrows("ValidationError", FALSE)
  ELSE IF ~reader THEN ReaderThrows("ClosedStreamError", FALSE)
  ELSE IF file.usesFloatingPointData THEN R_read(numSamples, ok)
  ELSE IF file.bitsPerSample = 16 THEN R_readInteger(2, numSamples, ok)
  ELSE IF file.bitsPerSample = 8 THEN R_readInteger(1, numSamples, ok)
  ELSE R_readInteger(4, numSamples, ok)

\* readRaw(numSamples).
R_readRaw(numSamples, ok) ==
  IF numSamples = 0 THEN ReaderThrows("ValidationError", FALSE)
  ELSE IF ~reader THEN ReaderThrows("ClosedStreamError", FALSE)
  ELSE IF file.usesFloatingPointData THEN R_read(numSamples, ok)
  ELSE IF file.bitsPerSample = 32 THEN R_readInteger(4, numSamples, ok)
  ELSE IF file.bitsPerSample = 16 THEN R_readInteger(2, numSamples, ok)
  ELSE IF file.bitsPerSample = 8 THEN R_readInteger(1, numSamples, ok)
  ELSE ReaderThrows("UnsupportedError", FALSE)

\* seek() without the closed-file check.
R_seek_noClosedCheck(targetPosition) ==
  IF targetPosition > file.lengthInSamples
  THEN ReaderThrows("ValidationError", FALSE)
  ELSE IF targetPosition < 0 THEN ReaderThrows("ValidationError", FALSE)
  ELSE ReaderOutcome("ok", 0, FALSE, reader, ToInt(targetPosition))

\* seek(targetPosition).
R_seek(targetPosition) ==
  IF ~reader THEN ReaderThrows("ClosedStreamError", FALSE)
  ELSE IF targetPosition > file.lengthInSamples
  THEN ReaderThrows("ValidationError", FALSE)
  ELSE IF targetPosition < 0 THEN ReaderThrows("ValidationError", FALSE)
  ELSE ReaderOutcome("ok", 0, FALSE, reader, ToInt(targetPosition))

\* tell().
R_tell ==
  IF ~reader THEN ReaderThrows("ClosedStreamError", FALSE)
  ELSE ReaderOutcome("ok", currentPosition, FALSE, reader, currentPosition)

\* close() that refuses a closed file, as the writer's close() does.
R_close_throwsWhenClosed ==
  IF ~reader THEN ReaderThrows("CannotCloseClosed", FALSE)
  ELSE ReaderOutcome("ok", 0, FALSE, FALSE, currentPosition)

\* close(): reader.reset().
R_close == ReaderOutcome("ok", 0, FALSE, FALSE, currentPosition)

\* exit(type, value, traceback): close().
R_exit == R_close

\* isClosed(): value 1 for true, 0 for false.
R_isClosed ==
  ReaderOutcome("ok", IF reader THEN 0 ELSE 1, FALSE, reader, currentPosition)

\* __repr__: " closed" for a closed file (value 1), else the accessors of an
\* open file, none of which throws on an open file (value 0).
R_repr ==
  ReaderOutcome("ok", IF R_isClosed.value = 1 THEN 1 ELSE 0, FALSE, reader,
                currentPosition)

(***************************************************************************)
(* WriteableAudioFile.                                                     *)
(***************************************************************************)
WriterOutcome(result, value, io, wtr, frames) ==
  [result |-> result, value |-> value, io |-> io, handle |-> wtr, counter |-> frames]

WriterThrows(result, io) == WriterOutcome(result, 0, io, writer, framesWritten)

\* The numpy element types write() is bound for.
SampleTypes == {"char", "short", "int", "float", "double"}

\* Shapes tried for write(): the number of dimensions and the first two axes.
Shapes ==
  { <<1, s0, 0>> : s0 \in 0 .. MaxDim }
    \cup { <<2, s0, s1>> : s0 \in 0 .. MaxDim, s1 \in 0 .. MaxDim }
    \cup { <<3, 1, 1>> }

\* detectChannelLayout (BufferUtils.h), as the specification describes the
\* channel layout detector: the axis that equals the stream's channel count
\* selects the layout; a one-dimensional buffer is one contiguous channel.
detectChannelLayout(ndim, s0, s1, channels) ==
  IF ndim = 1 THEN "NotInterleaved"
  ELSE IF ndim = 2 /\ s0 = channels /\ s1 # channels THEN "NotInterleaved"
  ELSE IF ndim = 2 /\ s1 = channels /\ s0 # channels THEN "Interleaved"
  ELSE "Undetermined"

\* write(const SampleType **channels, numChannels, numSamples): whether the
\* call reaches the backend writer.  int data for an integer writer and float
\* data go to the writer as they are; every other type goes through
\* writeConvertingTo, whose chunk loop makes no call for zero frames.
WriteReachesBackend(sampleType, numSamples) ==
  \/ sampleType = "float"
  \/ sampleType = "int" /\ ~file.usesFloatingPointData
  \/ NumChunks(numSamples) > 0

\* framesWritten += numSamples (an unsigned int added to the int counter).
AddFrames(numSamples) == ToInt(framesWritten + numSamples)

\* The samples a copy loop of write() passes on, as the offsets into the input
\* buffer (inputInfo.ptr) of frame f of channel c, both counted from 0.
\* De-interleaving with the frame count as the stride.
InterleavedOffset_frameStride(numChannels, numSamples, c, f) == f * numSamples + c

\* Interleaved: ptr[((i + startSample) * numChannels) + c].
InterleavedOffset(numChannels, numSamples, c, f) == f * numChannels + c

\* NotInterleaved: channelPointers[c] = ptr + (numSamples * c), frame f of it.
NotInterleavedOffset(numChannels, numSamples, c, f) == numSamples * c + f

\* What one write() hands to the backend: for each channel the offsets of its
\* frames, in order.
Handed(layout, numChannels, numSamples) ==
  [c \in 1 .. numChannels |->
     [f \in 1 .. numSamples |->
        IF layout = "Interleaved"
        THEN InterleavedOffset(numChannels, numSamples, c - 1, f - 1)
        ELSE NotInterleavedOffset(numChannels, numSamples, c - 1, f - 1)]]

\* The outcome of a write() whose copy loop called the backend.
WriteCalledBackend(layout, numSamples, ok) ==
  [handed |-> Handed(layout, file.numChannels, numSamples)]
    @@ (IF ok THEN WriterOutcome("ok", 0, TRUE, writer, AddFrames(numSamples))
        ELSE WriterThrows("IOError", TRUE))



\* The copy loops of write(), after the shape is settled.
WriteFrames(sampleType, layout, numSamples, ok) ==
  IF layout = "Interleaved"
  THEN IF NumChunks(numSamples) = 0
       THEN WriterOutcome("ok", 0, FALSE, writer, AddFrames(numSamples))
       ELSE WriteCalledBackend(layout, numSamples, ok)
  ELSE IF layout = "NotInterleaved"
  THEN IF ~WriteReachesBackend(sampleType, numSamples)
       THEN WriterOutcome("ok", 0, FALSE, writer, AddFrames(numSamples))
       ELSE WriteCalledBackend(layout, numSamples, ok)
  ELSE WriterThrows("InternalError", FALSE)

\* write() without the comparison of the channel counts.
WriteChannels_noCountCheck(sampleType, layout, numChannels, numSamples, ok) ==
  IF numChannels = 0 THEN WriterOutcome("ok", 0, FALSE, writer, framesWritten)
  ELSE WriteFrames(sampleType, layout, numSamples, ok)

\* The channel-count check of write(), then the copy loops.
WriteChannels(sampleType, layout, numChannels, numSamples, ok) ==
  IF numChannels = 0 THEN WriterOutcome("ok", 0, FALSE, writer, framesWritten)
  ELSE IF numChannels # file.numChannels THEN WriterThrows("ChannelMismatch", FALSE)
  ELSE WriteFrames(sampleType, layout, numSamples, ok)

\* A square test that lets a one-by-one buffer through on a mono stream.
BothAxesMatch_exceptMono(s0, s1) ==
  s0 = file.numChannels /\ s1 = file.numChannels /\ file.numChannels > 1

\* shape[0] == getNumChannels() && shape[1] == getNumChannels().
BothAxesMatch(s0, s1) == s0 = file.numChannels /\ s1 = file.numChannels

\* write(inputArray) for an array of sampleType with the shape
\* <<ndim, shape[0], shape[1]>>.
W_write(sampleType, shape, ok) ==
  LET ndim == shape[1]
      s0 == shape[2]
      s1 == shape[3]
      layout == detectChannelLayout(ndim, s0, s1, file.numChannels)
  IN IF ~writer THEN WriterThrows("ClosedStreamError", FALSE)
     ELSE IF ndim = 1 THEN WriteChannels(sampleType, layout, 1, s0, ok)
     ELSE IF ndim = 2
     THEN IF BothAxesMatch(s0, s1)
          THEN WriterThrows("AmbiguousShape", FALSE)
          ELSE IF s1 = file.numChannels
          THEN WriteChannels(sampleType, layout, s1, s0, ok)
          ELSE IF s0 = file.numChannels
          THEN WriteChannels(sampleType, layout, s0, s1, ok)
          ELSE WriterThrows("ShapeMismatch", FALSE)
     ELSE WriterThrows("BadDimensions", FALSE)

\* flush().
W_flush(ok) ==
  IF ~writer THEN WriterThrows("ClosedStreamError", FALSE)
  ELSE IF ~ok THEN WriterThrows("IOError", TRUE)
  ELSE WriterOutcome("ok", 0, TRUE, writer, framesWritten)

\* close() that accepts a closed file, as the reader's close() does.
W_close_idempotent == WriterOutcome("ok", 0, FALSE, FALSE, framesWritten)

\* close(): throws on a closed file, else writer.reset().
W_close ==
  IF ~writer THEN WriterThrows("CannotCloseClosed", FALSE)
  ELSE WriterOutcome("ok", 0, FALSE, FALSE, framesWritten)

\* exit(type, value, traceback): close().
W_exit == W_close

\* isClosed(): value 1 for true, 0 for false.
W_isClosed ==
  WriterOutcome("ok", IF writer THEN 0 ELSE 1, FALSE, writer, framesWritten)

\* __repr__.
W_repr ==
  WriterOutcome("ok", IF W_isClosed.value = 1 THEN 1 ELSE 0, FALSE, writer,
                framesWritten)

\* The read-only properties of WriteableAudioFile.
W_getSampleRate ==
  IF ~writer THEN WriterThrows("ClosedStreamError", FALSE)
  ELSE WriterOutcome("ok", 0, FALSE, writer, framesWritten)

W_getNumChannels ==
  IF ~writer THEN WriterThrows("ClosedStreamError", FALSE)
  ELSE WriterOutcome("ok", file.numChannels, FALSE, writer, framesWritten)

W_getFileDatatype ==
  IF ~writer THEN WriterThrows("ClosedStreamError", FALSE)
  ELSE WriterOutcome("ok", file.bitsPerSample, FALSE, writer, framesWritten)

W_getFramesWritten == WriterOutcome("ok", framesWritten, FALSE, writer, framesWritten)

\* value 1 when the optional holds a label, 0 when it is empty.
W_getQuality ==
  WriterOutcome("ok", IF quality = NoQuality THEN 0 ELSE 1, FALSE, writer,
                framesWritten)

WriterProperties == {"samplerate", "channels", "frames", "file_dtype", "quality"}

W_property(name) ==
  CASE name = "samplerate" -> W_getSampleRate
    [] name = "channels" -> W_getNumChannels
    [] name = "frames" -> W_getFramesWritten
    [] name = "file_dtype" -> W_getFileDatatype
    [] name = "quality" -> W_getQuality

(***************************************************************************)
(* Quality options.  A string is the sequence of its characters.           *)
(***************************************************************************)
UpperCase ==
  << "A", "B", "C", "D", "E", "F", "G", "H", "I", "J", "K", "L", "M",
     "N", "O", "P", "Q", "R", "S", "T", "U", "V", "W", "X", "Y", "Z" >>

LowerCase ==
  << "a", "b", "c", "d", "e", "f", "g", "h", "i", "j", "k", "l", "m",
     "n", "o", "p", "q", "r", "s", "t", "u", "v", "w", "x", "y", "z" >>

\* juce::CharacterFunctions::isDigit.
isDigit(ch) == ch \in {"0", "1", "2", "3", "4", "5", "6", "7", "8", "9"}

isWhitespace(ch) == ch = " "

toLowerCase(ch) ==
  IF \E i \in 1 .. Len(UpperCase) : UpperCase[i] = ch
  THEN LowerCase[CHOOSE i \in 1 .. Len(UpperCase) : UpperCase[i] = ch]
  ELSE ch

\* std::string::substr(pos, count), pos counted from 0.
substr(str, pos, count) ==
  SubSeq(str, pos + 1, Min(pos + count, Len(str)))

\* juce::String::trim(): the string without its leading and trailing
\* whitespace.
trim(str) ==
  LET inked == { i \in 1 .. Len(str) : ~isWhitespace(str[i]) }
  IN IF inked = {} THEN <<>>
     ELSE SubSeq(str, CHOOSE i \in inked : \A j \in inked : i <= j,
                      CHOOSE i \in inked : \A j \in inked : i >= j)

\* juce::String::equalsIgnoreCase.
equalsIgnoreCase(a, b) ==
  /\ Len(a) = Len(b)
  /\ \A i \in 1 .. Len(a) : toLowerCase(a[i]) = toLowerCase(b[i])

\* juce::String::startsWith (case-sensitive).
startsWith(str, prefix) ==
  Len(prefix) <= Len(str) /\ SubSeq(str, 1, Len(prefix)) = prefix

\* juce::String::containsIgnoreCase.
containsIgnoreCase(str, part) ==
  \E k \in 0 .. Len(str) - Len(part) :
    equalsIgnoreCase(SubSeq(str, k + 1, k + Len(part)), part)

\* The 0-based index of the first of the options at the positions hits
\* (positions counted from 1), or -1: the index a loop with a break ends with.
firstIndex(hits) ==
  IF hits = {} THEN -1
  ELSE (CHOOSE i \in hits : \A j \in hits : i <= j) - 1

\* The loop of lines 418-423: it counts every digit of qualityString.
numLeadingDigits(qualityString) ==
  Cardinality({ i \in 1 .. Len(qualityString) : isDigit(qualityString[i]) })

\* The test of lines 433-436 for one option.
matchesLeadingInt(option, leadingIntValue) ==
  /\ startsWith(option, leadingIntValue)
  /\ Len(option) > Len(leadingIntValue)
  /\ ~isDigit(option[Len(leadingIntValue) + 1])

\* Lines 411-414: the first option equal to qualityString ignoring case.
exactMatch_none(possibleQualityOptions, qualityString) == -1

exactMatch(possibleQualityOptions, qualityString) ==
  firstIndex({ i \in 1 .. Len(possibleQualityOptions) :
                 equalsIgnoreCase(possibleQualityOptions[i], qualityString) })

\* Lines 425-440: the first option that continues leadingIntValue.
leadingIntMatch(possibleQualityOptions, qualityString) ==
  LET leadingIntValue == substr(qualityString, 0, numLeadingDigits(qualityString))
  IN firstIndex({ i \in 1 .. Len(possibleQualityOptions) :
                    matchesLeadingInt(possibleQualityOptions[i], leadingIntValue) })

\* A substring search that settles for the first option.
substringMatch_fallback(possibleQualityOptions, qualityString) == 0

\* Lines 444-449: the first option that contains qualityString.
substringMatch(possibleQualityOptions, qualityString) ==
  firstIndex({ i \in 1 .. Len(possibleQualityOptions) :
                 containsIgnoreCase(possibleQualityOptions[i], qualityString) })

\* A default that takes the first option.
defaultIndex_first(size) == 0

\* Lines 464-471: the index used when no quality was asked for.
defaultIndex(size) == IF size > 0 THEN size - 1 ELSE 0

\* determineQualityOptionIndex(format, inputString) with the options of the
\* format: the index returned, or the error thrown.
determineQualityOptionIndex(possibleQualityOptions, inputString) ==
  LET qualityString == trim(inputString)
      exact == exactMatch(possibleQualityOptions, qualityString)
      matched == IF exact # -1 THEN exact
                 ELSE IF numLeadingDigits(qualityString) > 0
                 THEN leadingIntMatch(possibleQualityOptions, qualityString)
                 ELSE substringMatch(possibleQualityOptions, qualityString)
  IN IF qualityString # <<>>
     THEN IF Len(possibleQualityOptions) = 0
          THEN [result |-> "NoQualityOptions", index |-> -1]
          ELSE IF matched = -1
          THEN [result |-> "UnparseableQuality", index |-> -1]
          ELSE [result |-> "ok", index |-> matched]
     ELSE [result |-> "ok", index |-> defaultIndex(Len(possibleQualityOptions))]

(***************************************************************************)
(* WriteableAudioFile(filename, writeSampleRate, numChannels, bitDepth,    *)
(* qualityInput).  A double or float is a whole part and tenths.           *)
(***************************************************************************)
Number(whole, tenths) == [whole |-> whole, tenths |-> tenths]

\* A test that takes every number for a whole one.
isInteger_always(value) == TRUE

\* modf(value, &intpart) == 0.0.
isInteger(value) == value.tenths = 0

DigitChars == << "0", "1", "2", "3", "4", "5", "6", "7", "8", "9" >>

RECURSIVE intToString(_)
\* std::to_string(int).
intToString(n) ==
  IF n < 0 THEN <<"-">> \o intToString(-n)
  ELSE IF n < 10 THEN << DigitChars[n + 1] >>
  ELSE intToString(n \div 10) \o << DigitChars[(n % 10) + 1] >>

\* std::to_string(float): six digits after the point.
floatToString(q) ==
  intToString(q.whole) \o <<".", DigitChars[q.tenths + 1], "0", "0", "0", "0", "0">>

\* The quality argument: None, a string or a float.
NoQualityInput == [kind |-> "none"]

\* Lines 532-545: the quality argument as a string.
qualityStringOf(qualityInput) ==
  IF qualityInput.kind = "none" THEN <<>>
  ELSE IF qualityInput.kind = "string" THEN qualityInput.str
  ELSE IF isInteger(qualityInput.value) THEN intToString(qualityInput.value.whole)
  ELSE floatToString(qualityInput.value)

\* The value of quality when the format has no option at the resolved index.
NoLabel == <<>>

\* Lines 547-549: the label stored in quality.
qualityLabel(possibleQualityOptions, qualityOptionIndex) ==
  IF Len(possibleQualityOptions) > qualityOptionIndex
  THEN possibleQualityOptions[qualityOptionIndex + 1]
  ELSE NoLabel

\* The audio formats of the format manager, with what each reports.
KbpsOptions ==
  << <<"3", "2", " ", "k", "b", "p", "s">>,
     <<"6", "4", " ", "k", "b", "p", "s">>,
     <<"1", "2", "8", " ", "k", "b", "p", "s">>,
     <<"3", "2", "0", " ", "k", "b", "p", "s">> >>

VbrOptions ==
  << <<"V", "0", " ", "(", "b", "e", "s", "t", ")">>,
     <<"V", "2">>,
     <<"V", "9", " ", "(", "s", "m", "a", "l", "l", "e", "s", "t", ")">>,
     <<"3", "2", " ", "k", "b", "p", "s">>,
     <<"3", "2", "0", " ", "k", "b", "p", "s">> >>

AudioFormats ==
  { [formatName |-> "WAV file", extension |-> ".wav", isFloatingPoint |-> FALSE,
     possibleSampleRates |-> <<8000, 44100>>, possibleBitDepths |-> <<16, 24>>,
     qualityOptions |-> <<>>],
    [formatName |-> "Ogg-Vorbis file", extension |-> ".ogg", isFloatingPoint |-> TRUE,
     possibleSampleRates |-> <<8000, 44100>>, possibleBitDepths |-> <<32>>,
     qualityOptions |-> KbpsOptions],
    [formatName |-> "MP3 file", extension |-> ".mp3", isFloatingPoint |-> FALSE,
     possibleSampleRates |-> <<44100>>, possibleBitDepths |-> <<16>>,
     qualityOptions |-> VbrOptions],
    [formatName |-> "Read-only file", extension |-> ".m4a", isFloatingPoint |-> FALSE,
     possibleSampleRates |-> <<>>, possibleBitDepths |-> <<>>,
     qualityOptions |-> <<>>],
    [formatName |-> "Depthless file", extension |-> ".raw", isFloatingPoint |-> FALSE,
     possibleSampleRates |-> <<44100>>, possibleBitDepths |-> <<>>,
     qualityOptions |-> <<>>] }

\* The extensions of the file names tried: none, an unknown one, and those of
\* the formats.
Extensions == {"", ".xyz"} \cup { f.extension : f \in AudioFormats }

\* formatManager.findFormatForFileExtension.
findFormatForFileExtension(extension) ==
  CHOOSE f \in AudioFormats : f.extension = extension

contains(array, value) == \E i \in 1 .. Len(array) : array[i] = value

\* format->createWriterFor: the backend makes a writer for a rate and a depth
\* it lists and at least one channel, unless it fails for a reason of its own.
createWriterFor(format, sampleRate, numChannels, bitDepth, ok) ==
  /\ contains(format.possibleSampleRates, sampleRate.whole)
  /\ contains(format.possibleBitDepths, bitDepth)
  /\ numChannels > 0
  /\ ok

\* The constructor leaves without an object: the error thrown and the state of
\* the target file.
OpenThrows(result, disk) ==
  [result |-> result, handle |-> FALSE, quality |-> NoLabel, detail |-> <<>>,
   file |-> [onDisk |-> disk]]

\* Lines 601-606: the quality named in the last error of the constructor.
humanReadableQuality(qualityString) ==
  IF qualityString = <<>> THEN <<"N", "o", "n", "e">> ELSE qualityString

\* A triage that looks at the bit depths before the sample rates.
WriterNotCreated_depthFirst(format, a) ==
  IF Len(format.possibleBitDepths) = 0 THEN "NotWritable"
  ELSE IF ~contains(format.possibleBitDepths, a.bitDepth)
  THEN "UnsupportedBitDepth"
  ELSE IF Len(format.possibleSampleRates) = 0 THEN "NotWritable"
  ELSE IF ~contains(format.possibleSampleRates, a.sampleRate.whole)
  THEN "UnsupportedSampleRate"
  ELSE "UnableToCreateWriter"

\* Lines 555-611: the error for a writer the backend did not create.
WriterNotCreated(format, a) ==
  IF Len(format.possibleSampleRates) = 0 THEN "NotWritable"
  ELSE IF ~contains(format.possibleSampleRates, a.sampleRate.whole)
  THEN "UnsupportedSampleRate"
  ELSE IF Len(format.possibleBitDepths) = 0 THEN "NotWritable"
  ELSE IF ~contains(format.possibleBitDepths, a.bitDepth) THEN "UnsupportedBitDepth"
  ELSE "UnableToCreateWriter"

\* The constructor, for the arguments a and a target file in the state
\* file.onDisk ("absent", "empty" or "data": missing, of no bytes, with bytes).
W_open(a) ==
  LET format == findFormatForFileExtension(a.extension)
      index == determineQualityOptionIndex(format.qualityOptions,
                                           qualityStringOf(a.quality))
  IN IF ~isInteger(a.sampleRate) THEN OpenThrows("FractionalSampleRate", file.onDisk)
     ELSE IF a.sampleRate.whole = 0 THEN OpenThrows("ZeroSampleRate", file.onDisk)
     ELSE IF a.numChannels = 0 THEN OpenThrows("ZeroChannels", file.onDisk)
     ELSE IF ~a.openedOk THEN OpenThrows("UnableToOpen", file.onDisk)
     ELSE IF a.extension \notin { f.extension : f \in AudioFormats }
     THEN OpenThrows(IF a.extension = "" THEN "NoExtension" ELSE "UnknownExtension",
                     "empty")
     ELSE IF index.result # "ok" THEN OpenThrows(index.result, "empty")
     ELSE IF ~createWriterFor(format, a.sampleRate, a.numChannels, a.bitDepth,
                              a.backendOk)
     THEN [OpenThrows(WriterNotCreated(format, a), "empty")
             EXCEPT !.detail = IF WriterNotCreated(format, a) = "UnableToCreateWriter"
                               THEN humanReadableQuality(qualityStringOf(a.quality))
                               ELSE <<>>]
     ELSE [result |-> "ok", handle |-> TRUE, detail |-> <<>>,
           quality |-> qualityLabel(format.qualityOptions, index.index),
           file |-> [lengthInSamples |-> 0, numChannels |-> a.numChannels,
                     usesFloatingPointData |-> format.isFloatingPoint,
                     bitsPerSample |-> a.bitDepth, onDisk |-> "empty",
                     qualityOptions |-> format.qualityOptions]]

\* Longest quality string tried exhaustively.
MaxSpecifierLen == 2

SpecifierChars == {"2", "3", " ", "k", "V"}

\* The quality strings tried: every string of SpecifierChars up to
\* MaxSpecifierLen characters, and some longer ones.
Specifiers ==
  UNION { [1 .. n -> SpecifierChars] : n \in 0 .. MaxSpecifierLen }
    \cup { <<"1", "2", "8">>,
           <<"6", "4">>,
           <<"3", "2", "0", " ", "k", "b", "p", "s">>,
           <<"3", "2", " ", "K", "B", "P", "S">>,
           <<"k", "b", "p", "s">>,
           <<"1", "2", "8", " ", "k", "b", "p", "s">>,
           <<" ", "1", "2", "8", " ">>,
           <<"3", "2", " ", "k", "2">>,
           <<"1", "2", "8", " ", "k", "b", "p", "s", " ", "2">>,
           <<"V", "0", " ", "(", "b", "e", "s", "t", ")">>,
           <<"B", "E", "S", "T">>,
           <<"V", "9">>,
           <<"v", "2">>,
           <<"K">>,
           <<"3", "2", "k", "2">>,
           <<"V", "0">>,
           <<" ", " ", " ">> }

QualityInputs ==
  {NoQualityInput}
    \cup { [kind |-> "string", str |-> str] : str \in Specifiers }
    \cup { [kind |-> "float", value |-> q] :
             q \in {Number(32, 0), Number(128, 0), Number(2, 5)} }

OpenArgs ==
  [extension : Extensions, openedOk : BOOLEAN,
   sampleRate : {Number(0, 0), Number(44100, 0), Number(44100, 5), Number(22050, 0)},
   numChannels : {0, 2}, bitDepth : {16, 12}, quality : QualityInputs,
   backendOk : BOOLEAN]

(***************************************************************************)
(* ReadableAudioFile(filename).  A probe of the format manager gives the   *)
(* name of the format that made a reader, or NoReader.                     *)
(***************************************************************************)
NoReader == "none"

\* formatManager.createReaderFor(file): only the formats that handle the
\* extension of the file are tried; parsed tells whether one made a reader.
createReaderForFile(extension, parsed) ==
  IF parsed /\ \E f \in AudioFormats : f.extension = extension
  THEN findFormatForFileExtension(extension).formatName
  ELSE NoReader

\* Arguments of the constructor: the extension of the file name and what the
\* two probes find in the file.
ReadArgs ==
  [extension : {"", ".xyz", ".wav", ".mp3"}, parsed : BOOLEAN,
   byContent : {NoReader, "WAV file", "MP3 file"}]

ReadOpenOutcome(result, handle, formatName, probes) ==
  [result |-> result, handle |-> handle, formatName |-> formatName,
   probes |-> probes]

\* A constructor that keeps whatever reader the second probe made.
R_open_keepsMP3(a) ==
  LET byExtension == createReaderForFile(a.extension, a.parsed)
  IN IF file.onDisk = "absent" THEN ReadOpenOutcome("NotFound", FALSE, NoReader, 0)
     ELSE IF byExtension # NoReader
     THEN ReadOpenOutcome("ok", TRUE, byExtension, 1)
     ELSE IF a.byContent = NoReader
     THEN ReadOpenOutcome("UnsupportedFormat", FALSE, NoReader, 2)
     ELSE ReadOpenOutcome("ok", TRUE, a.byContent, 2)

\* Lines 41-72: the constructor, for a file in the state file.onDisk.
R_open(a) ==
  LET byExtension == createReaderForFile(a.extension, a.parsed)
  IN IF file.onDisk = "absent" THEN ReadOpenOutcome("NotFound", FALSE, NoReader, 0)
     ELSE IF byExtension # NoReader
     THEN ReadOpenOutcome("ok", TRUE, byExtension, 1)
     ELSE IF a.byContent = "MP3 file"
     THEN ReadOpenOutcome("UnsupportedFormat", FALSE, NoReader, 2)
     ELSE IF a.byContent = NoReader
     THEN ReadOpenOutcome("UnsupportedFormat", FALSE, NoReader, 2)
     ELSE ReadOpenOutcome("ok", TRUE, a.byContent, 2)

(***************************************************************************)
(* The value of one sample on its way into an integer file and out of it.  *)
(* The backend takes and gives samples as 32-bit integers aligned to the    *)
(* left: a file of b bits per sample keeps the top b bits.                  *)
(***************************************************************************)
INT_MAX == 2147483647

\* std::numeric_limits<T>::digits on a build whose char has no sign.
digits_unsignedChar(type) ==
  CASE type = "char" -> 8 [] type = "short" -> 15 [] type = "int" -> 31

\* std::numeric_limits<T>::digits: the bits of T without the sign bit.  char
\* is the signed 8-bit type of the int8 arrays the binding takes.
digits(type) ==
  CASE type = "char" -> 7 [] type = "short" -> 15 [] type = "int" -> 31

\* (int)x << k, for the values whose product stays within an int.
ShiftLeft(x, k) == x * (2 ^ k)

\* x >> k on an int: the arithmetic shift.
ShiftRight(x, k) == x \div (2 ^ k)

\* Lines 755-758: a char or short sample aligned to the left of an int.
LeftAlign(inputType, x) == ShiftLeft(x, digits("int") - digits(inputType))

\* Lines 797-811 for an integer writer: the sample handed to writer->write.
SampleToWriter(sampleType, x) ==
  IF sampleType = "int" THEN x ELSE LeftAlign(sampleType, x)

\* What the backend keeps of a sample v in a file of bitsPerSample bits, as
\* readSamples gives it back: the top bits, the rest zero.
StoredSample(v, bitsPerSample) ==
  ShiftLeft(ShiftRight(v, 32 - bitsPerSample), 32 - bitsPerSample)

\* A scale that ignores the depth of the file.
maxValueAsInt_generic(bitsPerSample) == INT_MAX

\* Lines 195-209: the largest sample of a file of bitsPerSample bits as
\* readSamples gives it; 0 stands for the default branch, which throws.
maxValueAsInt(bitsPerSample) ==
  CASE bitsPerSample = 24 -> 2147483392
    [] bitsPerSample = 16 -> 2147418112
    [] bitsPerSample = 8 -> 2130706432
    [] OTHER -> 0

SampleOutcome(result, value, den, dtype) ==
  [result |-> result, value |-> value, den |-> den, dtype |-> dtype]

\* Lines 172-217: read() of the sample v of an integer file.  The float it
\* gives is v * (1.0f / maxValueAsInt), held here as the quotient value / den.
\* A 32-bit file goes through reader->read, which scales by 1 / INT_MAX.
ReadSample(v, bitsPerSample) ==
  IF bitsPerSample = 32 THEN SampleOutcome("ok", v, INT_MAX, "float32")
  ELSE IF maxValueAsInt(bitsPerSample) = 0
  THEN SampleOutcome("UnsupportedError", 0, 0, "none")
  ELSE SampleOutcome("ok", v, maxValueAsInt(bitsPerSample), "float32")

\* Lines 268-323: readInteger<SampleType> of the sample v.
ReadIntegerSample(sizeofSampleType, v, bitsPerSample) ==
  LET dtype == CASE sizeofSampleType = 4 -> "int32"
                 [] sizeofSampleType = 2 -> "int16"
                 [] sizeofSampleType = 1 -> "int8"
  IN IF bitsPerSample > 16
     THEN IF sizeofSampleType < 4 THEN SampleOutcome("TooNarrow", 0, 0, "none")
          ELSE SampleOutcome("ok", v, 1, dtype)
     ELSE SampleOutcome("ok", ShiftRight(v, 32 - bitsPerSample), 1, dtype)

\* Lines 237-250: readRaw() of the sample v of an integer file.
ReadRawSample(v, bitsPerSample) ==
  CASE bitsPerSample = 32 -> ReadIntegerSample(4, v, bitsPerSample)
    [] bitsPerSample = 16 -> ReadIntegerSample(2, v, bitsPerSample)
    [] bitsPerSample = 8 -> ReadIntegerSample(1, v, bitsPerSample)
    [] OTHER -> SampleOutcome("UnsupportedError", 0, 0, "none")

\* The samples tried, by the element type of the array.
SamplesOf(sampleType) ==
  CASE sampleType = "char" -> -128 .. 127
    [] sampleType = "short" ->
         {-32768, -32767, -256, -129, -128, -1, 0, 1, 127, 128, 255, 256,
          32766, 32767}
    [] sampleType = "int" ->
         {-2147483647, -16777216, -65536, -256, -1, 0, 1, 255, 256, 65536,
          2130706432, 2147418112, 2147483392, INT_MAX}

\* Bits per sample of the integer files a sample is written to.
SampleDepths == {8, 12, 16, 24, 32}

(***************************************************************************)
(* The backend calls of the loops that move frames in chunks of            *)
(* DEFAULT_AUDIO_BUFFER_SIZE_FRAMES.  A call is the frame it starts at, the *)
(* number of frames it carries and what the backend answers: the backend    *)
(* takes a call that ends at or before frame capacity and rejects the rest. *)
(***************************************************************************)
BackendCall(start, count, capacity) ==
  [start |-> start, count |-> count, ok |-> start + count <= capacity]

\* A loop that goes on after a call the backend rejected.
Rejected_never(calls) == FALSE

\* if (!write(...)) / if (!reader->readSamples(...)): the call just made was
\* rejected.
Rejected(calls) == Len(calls) > 0 /\ ~calls[Len(calls)].ok

RECURSIVE WriteChannelsCalls(_, _, _, _)
RECURSIVE writeConvertingTo(_, _, _, _, _)
RECURSIVE InterleavedCalls(_, _, _, _)
RECURSIVE ReadIntegerCalls(_, _, _, _)

\* Lines 797-824: write(channels, numChannels, numSamples) for the frames of
\* the array from frame base on.
WriteChannelsCalls(sampleType, base, numSamples, capacity) ==
  IF sampleType \in {"char", "short"}
  THEN writeConvertingTo("int", base, 0, numSamples, capacity)
  ELSE IF sampleType = "int" /\ file.usesFloatingPointData
  THEN writeConvertingTo("float", base, 0, numSamples, capacity)
  ELSE IF sampleType = "double"
  THEN writeConvertingTo("float", base, 0, numSamples, capacity)
  ELSE << BackendCall(base, numSamples, capacity) >>

\* Lines 743-794: the loop of writeConvertingTo<TargetType>, from startSample.
writeConvertingTo(targetType, base, startSample, numSamples, capacity) ==
  IF ~(startSample < numSamples) THEN <<>>
  ELSE LET samplesToWrite ==
             Min(numSamples - startSample, DEFAULT_AUDIO_BUFFER_SIZE_FRAMES)
           made == WriteChannelsCalls(targetType, base + startSample,
                                      samplesToWrite, capacity)
       IN IF Rejected(made) THEN made
          ELSE made \o writeConvertingTo(targetType, base,
                                         startSample + DEFAULT_AUDIO_BUFFER_SIZE_FRAMES,
                                         numSamples, capacity)

\* Lines 690-710: the loop of write() for an interleaved array, from
\* startSample.
InterleavedCalls(sampleType, startSample, numSamples, capacity) ==
  IF ~(startSample < numSamples) THEN <<>>
  ELSE LET samplesToWrite ==
             Min(numSamples - startSample, DEFAULT_AUDIO_BUFFER_SIZE_FRAMES)
           made == WriteChannelsCalls(sampleType, startSample, samplesToWrite,
                                      capacity)
       IN IF Rejected(made) THEN made
          ELSE made \o InterleavedCalls(sampleType,
                                        startSample + DEFAULT_AUDIO_BUFFER_SIZE_FRAMES,
                                        numSamples, capacity)

\* Lines 679-729: the backend calls of write() by the layout of the array.
WriteCalls(layout, sampleType, numSamples, capacity) ==
  IF layout = "Interleaved"
  THEN InterleavedCalls(sampleType, 0, numSamples, capacity)
  ELSE WriteChannelsCalls(sampleType, 0, numSamples, capacity)

\* Lines 298-324: the loop of readInteger for files of at most 16 bits per
\* sample, from startSample.
ReadIntegerCalls(position, startSample, numSamples, capacity) ==
  IF ~(startSample < numSamples) THEN <<>>
  ELSE LET samplesToRead ==
             Min(numSamples - startSample, DEFAULT_AUDIO_BUFFER_SIZE_FRAMES)
           made == << BackendCall(position + startSample, samplesToRead, capacity) >>
       IN IF Rejected(made) THEN made
          ELSE made \o ReadIntegerCalls(position,
                                        startSample + DEFAULT_AUDIO_BUFFER_SIZE_FRAMES,
                                        numSamples, capacity)

\* Lines 268-324: the backend calls of readInteger.
ReadCalls(position, numSamples, capacity) ==
  IF file.bitsPerSample > 16
  THEN << BackendCall(position, numSamples, capacity) >>
  ELSE ReadIntegerCalls(position, 0, numSamples, capacity)

\* Frame counts of the arrays and reads tried: none, one full chunk, one
\* frame more, and two chunks and one frame.
ChunkFrames == {0, 8192, 8193, 16385}

\* Frames the backend takes before it rejects a call.
Capacities == {0, 8192, 16384, 24576}

\* Calls made on one stream.
MaxCalls == 2

ChunkWriterFiles ==
  { [lengthInSamples |-> 0, numChannels |-> 2, usesFloatingPointData |-> f,
     bitsPerSample |-> IF f THEN 32 ELSE 16] : f \in BOOLEAN }

ChunkReaderFiles ==
  { [lengthInSamples |-> 20000, numChannels |-> 2,
     usesFloatingPointData |-> FALSE, bitsPerSample |-> b] : b \in {8, 16, 32} }

(***************************************************************************)
(* Threads of ConcSpec.                                                    *)
(***************************************************************************)
Threads == {"t1", "t2"}
NoThread == "none"
NoShape == <<0, 0, 0>>

NoCall ==
  [op |-> "none", arg |-> 0, shape |-> NoShape, sampleType |-> "none",
   start |-> 0, frames |-> 0, io |-> "none"]

ThreadsAtRest ==
  /\ gil = NoThread
  /\ objectLock = [owner |-> NoThread, depth |-> 0]
  /\ pc = [t \in Threads |-> "idle"]
  /\ tl = [t \in Threads |-> NoCall]
  /\ history = <<>>

(***************************************************************************)
(* Spec: one caller, one action per method call.                           *)
(***************************************************************************)
Returned(op, arg, shape, out, handle, counter) ==
  [op |-> op, arg |-> arg, shape |-> shape, result |-> out.result,
   value |-> out.value, io |-> out.io,
   handed |-> IF "handed" \in DOMAIN out THEN out.handed ELSE <<>>,
   dtype |-> IF "dtype" \in DOMAIN out THEN out.dtype ELSE "none",
   width |-> IF "width" \in DOMAIN out THEN out.width ELSE 0,
   before |-> [handle |-> handle, counter |-> counter]]

\* The state after a successful construction: a ReadableAudioFile at frame 0
\* of some file, or a WriteableAudioFile that has written nothing.
StreamInit ==
  /\ mode \in {"r", "w"}
  /\ file \in (IF mode = "r" THEN ReaderFiles ELSE WriterFiles)
  /\ reader = (mode = "r")
  /\ currentPosition = 0
  /\ writer = (mode = "w")
  /\ framesWritten = 0
  /\ quality \in (IF mode = "w" THEN Qualities ELSE {NoQuality})

Init ==
  /\ StreamInit
  /\ last = [op |-> "open", arg |-> 0, shape |-> NoShape, result |-> "ok",
             value |-> 0, io |-> FALSE, handed |-> <<>>,
             before |-> [handle |-> FALSE, counter |-> 0]]
  /\ ThreadsAtRest

ReaderCall(op, arg, out) ==
  /\ mode = "r"
  /\ reader' = out.handle
  /\ currentPosition' = out.counter
  /\ last' = Returned(op, arg, NoShape, out, reader, currentPosition)
  /\ UNCHANGED <<mode, file, writer, framesWritten, quality>>
  /\ UNCHANGED threadVars

\* A writer whose quality goes with the handle it releases.
WriterCall_resetsQuality(op, shape, out) ==
  /\ mode = "w"
  /\ writer' = out.handle
  /\ framesWritten' = out.counter
  /\ quality' = IF out.handle THEN quality ELSE NoQuality
  /\ last' = Returned(op, 0, shape, out, writer, framesWritten)
  /\ UNCHANGED <<mode, file, reader, currentPosition>>
  /\ UNCHANGED threadVars

WriterCall(op, shape, out) ==
  /\ mode = "w"
  /\ writer' = out.handle
  /\ framesWritten' = out.counter
  /\ last' = Returned(op, 0, shape, out, writer, framesWritten)
  /\ UNCHANGED <<mode, file, reader, currentPosition, quality>>
  /\ UNCHANGED threadVars

Read == \E n \in FrameArgs, ok \in BOOLEAN : ReaderCall("read", n, R_read(n, ok))

ReadRaw == \E n \in FrameArgs, ok \in BOOLEAN : ReaderCall("readRaw", n, R_readRaw(n, ok))

\* readInteger<SampleType>(n) called on an open reader by a caller of the
\* class; out.width is sizeof(SampleType).
ReadInteger ==
  /\ reader
  /\ \E w \in {1, 2, 4}, n \in FrameArgs, ok \in BOOLEAN :
       ReaderCall("readInteger", n, [width |-> w] @@ R_readInteger(w, n, ok))

Seek == \E p \in SeekArgs : ReaderCall("seek", p, R_seek(p))

Tell == ReaderCall("tell", 0, R_tell)

ReaderClose == ReaderCall("close", 0, R_close)

\* __exit__ at the end of a with block.
ReaderExit == ReaderCall("exit", 0, R_exit)

ReaderIsClosed == ReaderCall("isClosed", 0, R_isClosed)

ReaderRepr == ReaderCall("repr", 0, R_repr)

Write ==
  \E sampleType \in SampleTypes, shape \in Shapes, ok \in BOOLEAN :
    WriterCall("write", shape, W_write(sampleType, shape, ok))

Flush == \E ok \in BOOLEAN : WriterCall("flush", NoShape, W_flush(ok))

WriterClose == WriterCall("close", NoShape, W_close)

\* __exit__ at the end of a with block.
WriterExit == WriterCall("exit", NoShape, W_exit)

WriterIsClosed == WriterCall("isClosed", NoShape, W_isClosed)

WriterRepr == WriterCall("repr", NoShape, W_repr)

WriterProperty == \E name \in WriterProperties : WriterCall(name, NoShape, W_property(name))

Next ==
  \/ Read
  \/ ReadRaw
  \/ ReadInteger
  \/ Seek
  \/ Tell
  \/ ReaderClose
  \/ ReaderExit
  \/ ReaderIsClosed
  \/ ReaderRepr
  \/ Write
  \/ Flush
  \/ WriterClose
  \/ WriterExit
  \/ WriterIsClosed
  \/ WriterRepr
  \/ WriterProperty

Spec == Init /\ [][Next]_vars

(***************************************************************************)
(* OpenSpec: one construction of a WriteableAudioFile.                     *)
(***************************************************************************)
\* Before the constructor runs there is no object; the target file may exist.
OpenInit ==
  /\ mode = "new"
  /\ file \in { [onDisk |-> d] : d \in {"absent", "data"} }
  /\ reader = FALSE
  /\ currentPosition = 0
  /\ writer = FALSE
  /\ framesWritten = 0
  /\ quality = NoLabel
  /\ last = [op |-> "none", arg |-> 0, shape |-> NoShape, result |-> "ok",
             value |-> 0, io |-> FALSE, handed |-> <<>>,
             before |-> [handle |-> FALSE, counter |-> 0]]
  /\ ThreadsAtRest

\* WriteableAudioFile(...): the object exists when the constructor returns;
\* when it throws there is none.
OpenWriter ==
  /\ mode = "new"
  /\ \E a \in OpenArgs :
    LET out == W_open(a) IN
      /\ mode' = IF out.result = "ok" THEN "w" ELSE "failed"
      /\ file' = out.file
      /\ writer' = out.handle
      /\ quality' = out.quality
      /\ last' = [op |-> "open", arg |-> a, shape |-> NoShape,
                  result |-> out.result, value |-> 0, io |-> a.openedOk,
                  handed |-> <<>>, detail |-> out.detail,
                  before |-> [handle |-> FALSE, counter |-> 0,
                              onDisk |-> file.onDisk]]
      /\ UNCHANGED <<reader, currentPosition, framesWritten>>
      /\ UNCHANGED threadVars

\* ReadableAudioFile(filename): last.value is the number of probes made.
OpenReader ==
  /\ mode = "new"
  /\ \E a \in ReadArgs :
    LET out == R_open(a) IN
      /\ mode' = IF out.result = "ok" THEN "r" ELSE "failed"
      /\ reader' = out.handle
      /\ last' = [op |-> "openForRead", arg |-> a, shape |-> NoShape,
                  result |-> out.result, value |-> out.probes,
                  io |-> out.probes > 0, handed |-> <<>>,
                  detail |-> out.formatName,
                  before |-> [handle |-> FALSE, counter |-> 0,
                              onDisk |-> file.onDisk]]
      /\ UNCHANGED <<file, currentPosition, writer, framesWritten, quality>>
      /\ UNCHANGED threadVars

OpenNext == OpenWriter \/ OpenReader

OpenSpec == OpenInit /\ [][OpenNext]_vars

(***************************************************************************)
(* Claims about Spec.  last is the call that just returned; last.before    *)
(* holds the handle and the counter as they were when it was made.         *)
(***************************************************************************)
ReaderDataOps == {"read", "readRaw", "seek", "tell"}
WriterDataOps == {"write", "flush"}

\* The call that just returned was made on a closed stream.
OnClosed == last.op # "open" /\ ~last.before.handle

\* The call that just returned was made on an open stream.
OnOpen == last.op # "open" /\ last.before.handle

\* The call that just returned left the handle and the counter as they were.
ReaderUntouched ==
  reader = last.before.handle /\ currentPosition = last.before.counter
WriterUntouched ==
  writer = last.before.handle /\ framesWritten = last.before.counter

\* C1: after close(), read(n) and readRaw(n) with n # 0, seek and tell on a
\* reader, and write and flush on a writer, fail with the closed-stream error,
\* reach no backend call and leave the position, the frame counter and the
\* closed flag as they were; isClosed and the string representation succeed
\* and report the stream closed.
C1_ClosedStreamRejectsDataOps ==
  /\ (mode = "r" /\ OnClosed /\ last.op \in ReaderDataOps
        /\ ~(last.op \in {"read", "readRaw"} /\ last.arg = 0))
       => (last.result = "ClosedStreamError" /\ ~last.io /\ ReaderUntouched)
  /\ (mode = "w" /\ OnClosed /\ last.op \in WriterDataOps)
       => (last.result = "ClosedStreamError" /\ ~last.io /\ WriterUntouched)
  /\ (OnClosed /\ last.op \in {"isClosed", "repr"})
       => (last.result = "ok" /\ last.value = 1
             /\ (IF mode = "r" THEN ReaderUntouched ELSE WriterUntouched))

\* A seek to a valid position was tried on a closed reader and refused.
C1_Witness ==
  /\ mode = "r" /\ OnClosed /\ last.op = "seek"
  /\ last.arg \in 0 .. file.lengthInSamples /\ last.arg # currentPosition
  /\ last.result = "ClosedStreamError"

\* C2: read(0) and readRaw(0) fail with the validation error whether the
\* reader is open or closed, and leave the read position (and the handle) as
\* they were.
C2_ZeroFramesRejected ==
  (mode = "r" /\ last.op \in {"read", "readRaw"} /\ last.arg = 0)
    => (last.result = "ValidationError" /\ ~last.io /\ ReaderUntouched)

\* read(0) was called on a closed reader and answered with the validation error.
C2_Witness ==
  /\ mode = "r" /\ OnClosed /\ last.op = "read" /\ last.arg = 0
  /\ last.result = "ValidationError"

\* C3: on an open reader seek(p) succeeds for every p in [0, length] and a
\* tell() made next returns exactly p; seek(p) with p < 0 or p > length fails
\* and leaves the position as it was.
C3_SeekThenTell ==
  (mode = "r" /\ OnOpen /\ last.op = "seek")
    => IF last.arg \in 0 .. file.lengthInSamples
       THEN last.result = "ok" /\ R_tell.result = "ok" /\ R_tell.value = last.arg
       ELSE last.result = "ValidationError" /\ ReaderUntouched

\* C4: the read position stays within [0, length-in-frames] whatever calls
\* were made on the reader.
C4_PositionInRange ==
  mode = "r" => currentPosition \in 0 .. file.lengthInSamples

\* C5: on an open reader a successful read(n) with n > 0 returns exactly
\* min(n, length - position) frames and advances the position by that many.
C5_ReadReturnsActualFrames ==
  (mode = "r" /\ OnOpen /\ last.op = "read" /\ last.arg > 0 /\ last.result = "ok")
    => LET actualFrames == Min(last.arg, file.lengthInSamples - last.before.counter)
       IN /\ last.value = actualFrames
          /\ currentPosition = last.before.counter + actualFrames

\* C6: close() on a reader never fails, open or already closed, and leaves the
\* reader closed with its handle released.
C6_ReaderCloseIdempotent ==
  (mode = "r" /\ last.op = "close") => (last.result = "ok" /\ ~reader)

\* close() was called on a reader that was closed already.
C6_Witness ==
  mode = "r" /\ OnClosed /\ last.op = "close" /\ last.result = "ok" /\ ~reader

\* C7: the first close() of an open writer succeeds and releases the handle;
\* a close() of a closed writer fails and leaves it closed.
C7_WriterCloseNotIdempotent ==
  (mode = "w" /\ last.op = "close")
    => /\ ~writer
       /\ IF last.before.handle THEN last.result = "ok"
          ELSE last.result = "CannotCloseClosed" /\ WriterUntouched

\* close() was called on a writer that was closed already and failed.
C7_Witness ==
  mode = "w" /\ OnClosed /\ last.op = "close" /\ last.result = "CannotCloseClosed"

\* C8: on a closed writer each metadata accessor (sample rate, channel count,
\* frames written, resolved quality, datatype tag) fails with the closed-stream
\* error.
C8_ClosedWriterAccessorsFail ==
  (mode = "w" /\ OnClosed /\ last.op \in WriterProperties)
    => last.result = "ClosedStreamError"

\* The frames of a buffer of the given shape on this stream: the axis that is
\* not the channel axis (lines 636, 648, 651).
ShapeFrames(shape) ==
  IF shape[1] = 1 THEN shape[2]
  ELSE IF shape[3] = file.numChannels THEN shape[2]
  ELSE shape[3]

\* C12: the frame counter of a writer never decreases: a successful write of
\* N frames increases it by exactly N, and no failed write, flush, close or
\* accessor decreases it.
C12_FrameCounterMonotonic ==
  (mode = "w" /\ last.op # "open")
    => /\ framesWritten >= last.before.counter
       /\ (last.op = "write" /\ last.result = "ok")
            => framesWritten = last.before.counter + ShapeFrames(last.shape)

\* C13: on an open stream of C channels, write of a 2-D buffer shaped (C, C)
\* fails with the ambiguity error for every C, the (1, 1) buffer on a mono
\* stream included, hands nothing to the backend and leaves the frame counter
\* as it was.
C13_SquareShapeAmbiguous ==
  (mode = "w" /\ OnOpen /\ last.op = "write"
     /\ last.shape = <<2, file.numChannels, file.numChannels>>)
    => /\ last.result = "AmbiguousShape"
       /\ ~last.io
       /\ WriterUntouched

\* A (1, 1) buffer written to an open mono stream.
C13_Witness ==
  /\ mode = "w" /\ OnOpen /\ last.op = "write"
  /\ file.numChannels = 1 /\ last.shape = <<2, 1, 1>>
  /\ last.result = "AmbiguousShape"

\* The offset of buffer[i][j] in the C-contiguous array of the given shape
\* (py::array::c_style).
BufferAt(shape, i, j) == i * shape[3] + j

C15_ShapeRejected ==
  (mode = "w" /\ OnOpen /\ last.op = "write")
    => /\ last.shape[1] > 2 => last.result = "BadDimensions"
       /\ (last.shape[1] = 2 /\ last.shape[2] # file.numChannels
             /\ last.shape[3] # file.numChannels)
            => last.result = "ShapeMismatch"
       /\ (last.shape[1] = 1 /\ file.numChannels > 1)
            => last.result = "ChannelMismatch"
       /\ last.result \in {"BadDimensions", "ShapeMismatch", "ChannelMismatch"}
            => ~last.io /\ last.handed = <<>> /\ WriterUntouched

\* A 1-D buffer of two frames written to a stereo stream.
C15_Witness ==
  /\ mode = "w" /\ OnOpen /\ last.op = "write"
  /\ file.numChannels = 2 /\ last.shape = <<1, 2, 0>>
  /\ last.result = "ChannelMismatch"

\* C22: the resolved quality of a writer is fixed at open: no write, flush,
\* close or accessor call, successful or failing, changes it.
C22_QualityFixedAtOpen == [][mode = "w" => quality' = quality]_vars

\* A writer that was opened with a label, has written, and has been closed.
C22_Witness ==
  /\ mode = "w" /\ quality # NoQuality
  /\ last.op = "close" /\ last.result = "ok" /\ ~writer
  /\ framesWritten > 0

\* The element type of the file's own representation, "none" when readRaw
\* has no type for it.
NativeType ==
  IF file.usesFloatingPointData THEN "float32"
  ELSE CASE file.bitsPerSample = 32 -> "int32"
         [] file.bitsPerSample = 16 -> "int16"
         [] file.bitsPerSample = 8 -> "int8"
         [] OTHER -> "none"

C28_ReadInteger ==
  (mode = "r" /\ last.op = "readInteger" /\ last.arg >= 0)
    => /\ file.usesFloatingPointData
            => last.result = "FloatingPointFile" /\ ReaderUntouched
       /\ (~file.usesFloatingPointData /\ file.bitsPerSample > 16 /\ last.width < 4)
            => last.result = "TooNarrow" /\ ReaderUntouched
       /\ last.result = "ok"
            => currentPosition = last.before.counter
                 + Min(last.arg, file.lengthInSamples - last.before.counter)

\* C32: leaving a with block (__exit__) completes without raising and leaves
\* the stream closed, for a reader and for a writer, whether the stream was
\* still open or had been closed inside the block.
C32_ExitCloses ==
  last.op = "exit" => last.result = "ok" /\ ~reader /\ ~writer

(***************************************************************************)
(* ChunkSpec: arrays of more frames than one chunk are written to a        *)
(* writer, or read from a reader with readRaw, over a backend that may      *)
(* reject a call.  The frame counts stay far below INT_MAX, so the int      *)
(* counters hold them as they are.  file.lengthInSamples of a writer is the *)
(* number of frames the backend has accepted.                               *)
(***************************************************************************)
ChunkInit ==
  /\ mode = "chunk"
  /\ \/ reader = TRUE /\ writer = FALSE /\ file \in ChunkReaderFiles
     \/ writer = TRUE /\ reader = FALSE /\ file \in ChunkWriterFiles
  /\ currentPosition = 0
  /\ framesWritten = 0
  /\ quality = NoQuality
  /\ last = [op |-> "open", sampleType |-> "none", layout |-> "none", arg |-> 0,
             frames |-> 0, base |-> 0, calls |-> <<>>, result |-> "ok", n |-> 0]
  /\ ThreadsAtRest

Accepted(calls) ==
  IF Len(calls) = 0 THEN 0
  ELSE IF calls[Len(calls)].ok
  THEN calls[Len(calls)].start + calls[Len(calls)].count - calls[1].start
  ELSE calls[Len(calls)].start - calls[1].start

\* write(array) of numSamples frames of two channels.
ChunkWrite ==
  /\ mode = "chunk" /\ writer /\ last.n < MaxCalls
  /\ \E sampleType \in SampleTypes, layout \in {"Interleaved", "NotInterleaved"},
        numSamples \in ChunkFrames, capacity \in Capacities :
       LET calls == WriteCalls(layout, sampleType, numSamples, capacity) IN
         /\ file' = [file EXCEPT !.lengthInSamples = @ + Accepted(calls)]
         /\ framesWritten' = IF Rejected(calls) THEN framesWritten
                             ELSE framesWritten + numSamples
         /\ last' = [op |-> "write", sampleType |-> sampleType, layout |-> layout,
                     arg |-> numSamples, frames |-> numSamples, base |-> 0,
                     calls |-> calls,
                     result |-> IF Rejected(calls) THEN "IOError" ELSE "ok",
                     n |-> last.n + 1]
  /\ UNCHANGED <<mode, reader, currentPosition, writer, quality>>
  /\ UNCHANGED threadVars

\* readRaw(n) on an integer file: readInteger of min(n, length - position)
\* frames.
ChunkReadInteger ==
  /\ mode = "chunk" /\ reader /\ last.n < MaxCalls
  /\ \E n \in ChunkFrames \ {0}, capacity \in Capacities :
       LET numSamples == Min(n, file.lengthInSamples - currentPosition)
           calls == ReadCalls(currentPosition, numSamples, capacity)
       IN /\ currentPosition' = IF Rejected(calls) THEN currentPosition
                                 ELSE currentPosition + numSamples
          /\ last' = [op |-> "readInteger", sampleType |-> "none",
                      layout |-> "none", arg |-> n, frames |-> numSamples,
                      base |-> currentPosition, calls |-> calls,
                      result |-> IF Rejected(calls) THEN "IOError" ELSE "ok",
                      n |-> last.n + 1]
  /\ UNCHANGED <<mode, file, reader, writer, framesWritten, quality>>
  /\ UNCHANGED threadVars

ChunkNext == ChunkWrite \/ ChunkReadInteger

ChunkSpec == ChunkInit /\ [][ChunkNext]_vars

(***************************************************************************)
(* Claims about ChunkSpec.  last.calls are the backend calls of the call    *)
(* that just returned, last.base the frame its first chunk starts at and    *)
(* last.frames the frames it had to move.                                   *)
(***************************************************************************)
\* The call went through one of the chunking loops: readInteger of a file of
\* at most 16 bits, write of an interleaved array, or write of an array whose
\* samples are converted.
ThroughChunkLoop ==
  \/ last.op = "readInteger" /\ file.bitsPerSample <= 16
  \/ /\ last.op = "write"
     /\ \/ last.layout = "Interleaved"
        \/ last.sampleType \in {"char", "short", "double"}
        \/ last.sampleType = "int" /\ file.usesFloatingPointData

\* C29: in the loops that move frames in chunks every backend call carries
\* at most 8192 frames; the chunks start at the first frame asked for and
\* follow each other without a gap or an overlap, each full but the last,
\* which holds the remainder; only the last call made can be a rejected one,
\* and when none is rejected the chunks cover every frame asked for.
C29_ChunksBoundedAndComplete ==
  ThroughChunkLoop
    => LET c == last.calls
           N == Len(last.calls)
       IN /\ \A i \in 1 .. N :
               /\ c[i].count >= 1
               /\ c[i].count <= 8192
               /\ c[i].start = last.base + 8192 * (i - 1)
               /\ c[i].count = Min(8192, last.base + last.frames - c[i].start)
          /\ \A i \in 1 .. N - 1 :
               c[i].ok /\ c[i + 1].start = c[i].start + c[i].count
          /\ IF N > 0 /\ ~c[N].ok
             THEN last.result = "IOError"
             ELSE /\ last.result = "ok"
                  /\ N * 8192 >= last.frames
                  /\ N > 0 => c[N].start + c[N].count = last.base + last.frames

\* An interleaved array of two chunks and one frame whose last chunk, of one
\* frame, is rejected.
C29_Witness ==
  /\ last.op = "write" /\ last.layout = "Interleaved" /\ last.sampleType = "char"
  /\ last.frames = 16385 /\ Len(last.calls) = 3
  /\ last.calls[3] = [start |-> 16384, count |-> 1, ok |-> FALSE]
  /\ last.result = "IOError"

\* C30: after any sequence of writes, writes that fail part-way through an
\* array of more than one chunk included, the frames-written counter is the
\* number of frames the backend has accepted.
C30_CounterMatchesAccepted ==
  (mode = "chunk" /\ writer) => framesWritten = file.lengthInSamples

(***************************************************************************)
(* SampleSpec: one sample is written to an empty integer file, and is read *)
(* back from it with read() or with readRaw().                             *)
(***************************************************************************)
SampleInit ==
  /\ mode = "sample"
  /\ file \in { [usesFloatingPointData |-> FALSE, bitsPerSample |-> b,
                  holds |-> FALSE, stored |-> 0] : b \in SampleDepths }
  /\ reader = FALSE
  /\ currentPosition = 0
  /\ writer = TRUE
  /\ framesWritten = 0
  /\ quality = NoQuality
  /\ last = [op |-> "none", sampleType |-> "none", arg |-> 0, result |-> "ok",
             value |-> 0, den |-> 0, dtype |-> "none"]
  /\ ThreadsAtRest

\* write() of a one-sample array of an integer type, and close().
WriteSample ==
  /\ mode = "sample" /\ writer
  /\ \E sampleType \in {"char", "short", "int"} :
       \E x \in SamplesOf(sampleType) :
         /\ file' = [file EXCEPT
                       !.stored = StoredSample(SampleToWriter(sampleType, x),
                                               file.bitsPerSample),
                       !.holds = TRUE]
         /\ last' = [op |-> "write", sampleType |-> sampleType, arg |-> x,
                     result |-> "ok", value |-> SampleToWriter(sampleType, x),
                     den |-> 1, dtype |-> "none"]
  /\ writer' = FALSE
  /\ reader' = TRUE
  /\ framesWritten' = 1
  /\ UNCHANGED <<mode, currentPosition, quality>>
  /\ UNCHANGED threadVars

ReadSampleBack(op, out) ==
  /\ mode = "sample" /\ reader /\ file.holds /\ currentPosition = 0
  /\ last' = [op |-> op, sampleType |-> last.sampleType, arg |-> last.arg,
              result |-> out.result, value |-> out.value, den |-> out.den,
              dtype |-> out.dtype]
  /\ currentPosition' = IF out.result = "ok" THEN 1 ELSE 0
  /\ UNCHANGED <<mode, file, reader, writer, framesWritten, quality>>
  /\ UNCHANGED threadVars

ReadSampleAsFloat ==
  ReadSampleBack("read", ReadSample(file.stored, file.bitsPerSample))

ReadSampleRaw ==
  ReadSampleBack("readRaw", ReadRawSample(file.stored, file.bitsPerSample))

SampleNext == WriteSample \/ ReadSampleAsFloat \/ ReadSampleRaw

SampleSpec == SampleInit /\ [][SampleNext]_vars

(***************************************************************************)
(* Claims about SampleSpec.  last.sampleType and last.arg are the type and *)
(* the value of the sample that was written.                               *)
(***************************************************************************)
\* C25: an int8 sample is handed to the backend shifted left by 24 bits, an
\* int16 sample by 16 bits; written to an integer file of the same width and
\* read back with readRaw it is the value that was written, for negative
\* values and the extremes too.
C25_IntegerRoundTrip ==
  /\ (last.op = "write" /\ last.sampleType = "char")
       => last.value = last.arg * 16777216
  /\ (last.op = "write" /\ last.sampleType = "short")
       => last.value = last.arg * 65536
  /\ (last.op = "readRaw"
        /\ \/ last.sampleType = "char" /\ file.bitsPerSample = 8
           \/ last.sampleType = "short" /\ file.bitsPerSample = 16)
       => last.result = "ok" /\ last.value = last.arg

C25_Witness ==
  /\ last.op = "readRaw" /\ last.sampleType = "char" /\ file.bitsPerSample = 8
  /\ last.arg = -128 /\ last.value = -128 /\ file.stored < 0

\* D_B = (2^(B-1) - 1) << (32 - B): the largest sample of B bits, aligned to
\* the left of 32 bits.
LargestSample(b) == (2 ^ (b - 1) - 1) * 2 ^ (32 - b)

\* C26: read() of an integer file of B = 8, 16 or 24 bits divides the sample
\* by D_B, never by the largest int, so the largest sample of B bits gives
\* D_B / D_B = 1.0; an integer file of another depth, 32 apart, is an error.
C26_FloatScaling ==
  last.op = "read"
    => /\ file.bitsPerSample \in {8, 16, 24}
            => /\ last.result = "ok"
               /\ last.den = LargestSample(file.bitsPerSample)
               /\ last.den # INT_MAX
               /\ file.stored = LargestSample(file.bitsPerSample)
                    => last.value = last.den
       /\ file.bitsPerSample \notin {8, 16, 24, 32} => last.result # "ok"

\* The largest int written to a 24-bit file and read back as a float.
C26_Witness ==
  /\ last.op = "read" /\ file.bitsPerSample = 24 /\ last.sampleType = "int"
  /\ last.arg = INT_MAX /\ file.stored = 2147483392
  /\ last.value = last.den

(***************************************************************************)
(* Claims about OpenSpec.  last.arg holds the arguments of the constructor *)
(* call; the resolved quality shows in quality when the object was made,   *)
(* and in the error when the resolution failed.                            *)
(***************************************************************************)
QualityFailed == last.result \in {"NoQualityOptions", "UnparseableQuality"}

QualityObserved == last.op = "open" /\ (last.result = "ok" \/ QualityFailed)

\* The quality specifier of the call, without the whitespace around it, and
\* the labels of the format asked for.
Specifier == trim(qualityStringOf(last.arg.quality))

Labels == findFormatForFileExtension(last.arg.extension).qualityOptions

HasExactMatch == \E i \in 1 .. Len(Labels) : equalsIgnoreCase(Labels[i], Specifier)

\* The leading run of digits of the specifier.
DigitRun ==
  SubSeq(Specifier, 1,
         Cardinality({ k \in 1 .. Len(Specifier) :
                         \A i \in 1 .. k : isDigit(Specifier[i]) }))

\* The positions of the labels that start with the digit run, are longer than
\* it and go on with a character that is not a digit.
DigitRunLabels ==
  { i \in 1 .. Len(Labels) :
      /\ Len(Labels[i]) > Len(DigitRun)
      /\ SubSeq(Labels[i], 1, Len(DigitRun)) = DigitRun
      /\ ~isDigit(Labels[i][Len(DigitRun) + 1]) }

\* The positions of the labels that contain the specifier, ignoring case.
SubstringLabels ==
  { i \in 1 .. Len(Labels) :
      \E k \in 0 .. Len(Labels[i]) - Len(Specifier) :
        \A j \in 1 .. Len(Specifier) :
          toLowerCase(Labels[i][k + j]) = toLowerCase(Specifier[j]) }

\* The object was made with the first of the labels at the given positions
\* as its quality; with no position, the resolution failed.
SelectsFirstOf(positions) ==
  IF positions = {} THEN QualityFailed
  ELSE /\ last.result = "ok"
       /\ quality = Labels[CHOOSE i \in positions : \A j \in positions : i <= j]

\* C17: a specifier with no exact match that begins with a run of digits
\* selects the first label that starts with exactly that run of digits, is
\* longer than it and goes on with a non-digit: "128" selects "128 kbps" and
\* "32" selects "32 kbps", never "320 kbps".
C17_NumericPrefixRule ==
  (QualityObserved /\ Len(Labels) > 0 /\ ~HasExactMatch /\ Len(DigitRun) > 0)
    => SelectsFirstOf(DigitRunLabels)

\* C18: a specifier with no exact match that does not begin with a digit
\* selects the first label that contains it ignoring case, also when it has
\* digits after its first character.
C18_SubstringRule ==
  (QualityObserved /\ Len(Labels) > 0 /\ ~HasExactMatch
     /\ Len(Specifier) > 0 /\ ~isDigit(Specifier[1]) /\ SubstringLabels # {})
    => SelectsFirstOf(SubstringLabels)

\* C19: with no specifier, or an empty one, the last label of the list is
\* selected; with an empty list the quality is absent and no error is raised.
C19_DefaultQuality ==
  (QualityObserved /\ Specifier = <<>>)
    => /\ last.result = "ok"
       /\ quality = IF Len(Labels) > 0 THEN Labels[Len(Labels)] ELSE NoLabel

\* No specifier for a format with labels, and for a format with none.
C19_Witness ==
  /\ last.op = "open" /\ last.result = "ok" /\ last.arg.quality = NoQualityInput
  /\ \/ Labels = VbrOptions /\ quality = <<"3", "2", "0", " ", "k", "b", "p", "s">>
     \/ Labels = <<>> /\ quality = NoLabel

\* C20: a specifier equal to a label ignoring case selects that label,
\* whatever the numeric-prefix and substring rules would select.
C20_ExactMatchFirst ==
  (QualityObserved /\ HasExactMatch)
    => /\ last.result = "ok"
       /\ equalsIgnoreCase(quality, Specifier)

\* "v2" selects "V2": the labels differ from the specifier in case only.
C20_Witness ==
  /\ last.op = "open" /\ last.result = "ok"
  /\ Specifier = <<"v", "2">> /\ quality = <<"V", "2">>

\* The quality specifier as it was given, and whether one of the three rules
\* selects a label for the specifier.
RawSpecifier == qualityStringOf(last.arg.quality)

NoRuleSelects ==
  /\ ~HasExactMatch
  /\ IF DigitRun # <<>> THEN DigitRunLabels = {} ELSE SubstringLabels = {}

IsLabel(q) == \E i \in 1 .. Len(Labels) : Labels[i] = q

ValidationErrors == {"FractionalSampleRate", "ZeroSampleRate", "ZeroChannels"}

\* C23: opening a writer with a fractional sample rate, a zero sample rate or
\* zero channels fails with a validation error; no stream is created and the
\* target file is not touched.
C23_OpenValidates ==
  (last.op = "open"
     /\ \/ last.arg.sampleRate.tenths # 0
        \/ last.arg.sampleRate = Number(0, 0)
        \/ last.arg.numChannels = 0)
    => /\ last.result \in ValidationErrors
       /\ mode = "failed" /\ ~writer
       /\ file.onDisk = last.before.onDisk

C23_Witness ==
  /\ last.op = "open" /\ last.arg.numChannels = 0
  /\ last.arg.sampleRate = Number(44100, 0)
  /\ last.result = "ZeroChannels" /\ mode = "failed" /\ ~writer
  /\ last.before.onDisk = "data" /\ file.onDisk = "data"

\* The constructor got as far as asking the backend for a writer and got
\* none: every earlier step passed and no object was made.
BackendMadeNoWriter ==
  /\ last.op = "open" /\ last.result # "ok"
  /\ last.result \notin ValidationErrors
  /\ last.result \notin {"UnableToOpen", "NoExtension", "UnknownExtension"}
  /\ ~QualityFailed

Rates == findFormatForFileExtension(last.arg.extension).possibleSampleRates

Depths == findFormatForFileExtension(last.arg.extension).possibleBitDepths

Offers(list, value) == \E i \in 1 .. Len(list) : list[i] = value

\* The error the order of the triage gives for the arguments of the call.
TriageError ==
  IF Len(Rates) = 0 THEN "NotWritable"
  ELSE IF ~Offers(Rates, last.arg.sampleRate.whole) THEN "UnsupportedSampleRate"
  ELSE IF Len(Depths) = 0 THEN "NotWritable"
  ELSE IF ~Offers(Depths, last.arg.bitDepth) THEN "UnsupportedBitDepth"
  ELSE "UnableToCreateWriter"

\* The label the quality of the call resolved to, "None" when there is none.
ResolvedLabel ==
  LET defaulted == IF Len(Labels) > 0 THEN Labels[Len(Labels)] ELSE <<"N", "o", "n", "e">>
      exact == { i \in 1 .. Len(Labels) : equalsIgnoreCase(Labels[i], Specifier) }
      hits == IF exact # {} THEN exact
              ELSE IF DigitRun # <<>> THEN DigitRunLabels ELSE SubstringLabels
  IN IF Specifier = <<>> \/ hits = {} THEN defaulted
     ELSE Labels[CHOOSE i \in hits : \A j \in hits : i <= j]

\* C24 as stated: the generic error names the resolved quality.
C24_TriageOrder_ResolvedQuality ==
  BackendMadeNoWriter
    => /\ last.result = TriageError
       /\ mode = "failed" /\ ~writer
       /\ last.result = "UnableToCreateWriter" => last.detail = ResolvedLabel

\* C24 (amended): when the backend makes no writer the error is chosen in
\* this order: no sample rates -> not writable; rate not offered ->
\* unsupported rate; no bit depths -> not writable; depth not offered ->
\* unsupported depth; otherwise the generic error, which names the quality
\* specifier as it was given ("None" when it is absent or empty).  One error
\* is raised and no stream is created.
C24_TriageOrder ==
  BackendMadeNoWriter
    => /\ last.result = TriageError
       /\ mode = "failed" /\ ~writer
       /\ last.result = "UnableToCreateWriter"
            => last.detail = (IF RawSpecifier = <<>> THEN <<"N", "o", "n", "e">>
                              ELSE RawSpecifier)
       /\ last.result # "UnableToCreateWriter" => last.detail = <<>>

\* A rate the format does not offer, asked for together with a depth it does
\* not offer: the rate is reported.
C24_Witness ==
  /\ BackendMadeNoWriter
  /\ Len(Rates) > 0 /\ ~Offers(Rates, last.arg.sampleRate.whole)
  /\ Len(Depths) > 0 /\ ~Offers(Depths, last.arg.bitDepth)
  /\ last.result = "UnsupportedSampleRate"

\* C31: opening a reader for a path that is not an existing file fails with
\* the not-found error before any probe; when the probe by extension finds no
\* reader, a file the probe by content takes for an MP3 although its name does
\* not end in .mp3 fails with the unsupported-format error, and so does a
\* file for which neither probe finds a reader; no stream is created.
C31_ReaderOpenGuards ==
  last.op = "openForRead"
    => LET byExtension ==
             last.arg.parsed /\ last.arg.extension \in {".wav", ".mp3"}
           NoStream == mode = "failed" /\ ~reader
       IN /\ last.before.onDisk = "absent"
               => last.result = "NotFound" /\ last.value = 0 /\ NoStream
          /\ (last.before.onDisk # "absent" /\ ~byExtension
                /\ last.arg.byContent = "MP3 file" /\ last.arg.extension # ".mp3")
               => last.result = "UnsupportedFormat" /\ NoStream
          /\ (last.before.onDisk # "absent" /\ ~byExtension
                /\ last.arg.byContent = NoReader)
               => last.result = "UnsupportedFormat" /\ NoStream

\* A file named .wav that only the MP3 format takes, by its content.
C31_Witness ==
  /\ last.op = "openForRead" /\ last.before.onDisk = "data"
  /\ last.arg.extension = ".wav" /\ ~last.arg.parsed
  /\ last.arg.byContent = "MP3 file"
  /\ last.result = "UnsupportedFormat" /\ last.value = 2 /\ ~reader

\* C33: an open for writing that fails because the extension is missing or
\* unknown, because the quality does not resolve, or because the backend
\* refuses the sample rate or the bit depth, leaves a file that existed at
\* the target path as it was.
C33_FailedOpenKeepsFile ==
  (last.op = "open" /\ last.before.onDisk = "data"
     /\ last.result \in {"NoExtension", "UnknownExtension", "NoQualityOptions",
                          "UnparseableQuality", "UnsupportedSampleRate",
                          "UnsupportedBitDepth"})
    => file.onDisk = "data"

(***************************************************************************)
(* ConcSpec: two Python threads call methods of one stream object.         *)
(*                                                                         *)
(* A thread runs Python code, and enters a bound method, only while it     *)
(* holds the interpreter lock (GIL).  Inside a method it keeps the GIL     *)
(* until a py::gil_scoped_release, also while it waits for objectLock;     *)
(* the end of the gil_scoped_release scope waits for the GIL again.        *)
(* pc: "idle"  in Python code without the GIL                              *)
(*     "py"    in Python code with the GIL, between two calls              *)
(*     "<method>_lock"   in the method, waiting for objectLock (with GIL)  *)
(*     "<method>_io"     in the method's GIL-free part (with objectLock)   *)
(*     "<method>_regil"  at the end of that part, waiting for the GIL      *)
(***************************************************************************)
\* Calls each thread makes.
CallsPerThread == 1

ConcFrameArgs == -1 .. 2
ConcShapes == { <<1, 1, 0>>, <<2, 1, 2>>, <<2, 2, 2>> }
ConcSampleTypes == {"short", "float"}

\* The files of ConcSpec fit an int: the locking is looked at apart from the
\* narrowing of the position.
ConcReaderFiles ==
  { f \in ReaderFiles :
      /\ f.lengthInSamples <= MaxShortLength
      /\ f.numChannels = 1
      /\ f.bitsPerSample \in {16, 32} }

\* The writers of ConcSpec: a mono and a stereo 16-bit file.
ConcWriterFiles ==
  { f \in WriterFiles : f.numChannels \in {1, 2} /\ ~f.usesFloatingPointData }

ConcInit ==
  /\ StreamInit
  /\ mode = "r" => file \in ConcReaderFiles
  /\ mode = "w" => file \in ConcWriterFiles /\ quality = NoQuality
  /\ last = [op |-> "open", arg |-> 0, shape |-> NoShape, result |-> "ok",
             value |-> 0, io |-> FALSE, handed |-> <<>>,
             before |-> [handle |-> FALSE, counter |-> 0]]
  /\ ThreadsAtRest

\* A lock that excludes nobody.
CanEnter_noExclusion(t) == t \in Threads

\* A lock that its owner cannot take a second time.
CanEnter_notReentrant(t) == objectLock.depth = 0

\* juce::CriticalSection::enter() returns when no other thread owns the lock;
\* the lock is re-entrant.
CanEnter(t) == objectLock.depth = 0 \/ objectLock.owner = t

Entered(t) == [owner |-> t, depth |-> objectLock.depth + 1]

\* juce::ScopedLock's destructor, run on return and on every throw.
Exited ==
  IF objectLock.depth <= 1 THEN [owner |-> NoThread, depth |-> 0]
  ELSE [owner |-> objectLock.owner, depth |-> objectLock.depth - 1]

\* The lock after one more ScopedLock of its owner is gone.
Leave(lock) ==
  IF lock.depth <= 1 THEN [owner |-> NoThread, depth |-> 0]
  ELSE [owner |-> lock.owner, depth |-> lock.depth - 1]

\* Thread t is in the read() that readRaw() calls under its own ScopedLock.
Nested(t) == tl[t].op = "readRaw"

CallsOf(t) == Len(SelectSeq(history, LAMBDA h : h.thread = t))

\* The call of thread t returns (or throws) result to Python.
Return(t, result, frames) ==
  /\ history' = Append(history,
                  [thread |-> t, op |-> tl[t].op, arg |-> tl[t].arg,
                   shape |-> tl[t].shape, result |-> result,
                   start |-> tl[t].start, frames |-> frames])
  /\ tl' = [tl EXCEPT ![t] = NoCall]
  /\ pc' = [pc EXCEPT ![t] = "py"]

\* The interpreter hands the GIL to a thread that waits to run Python code.
TakeGIL(t) ==
  /\ pc[t] = "idle" /\ gil = NoThread
  /\ gil' = t
  /\ pc' = [pc EXCEPT ![t] = "py"]
  /\ UNCHANGED <<streamVars, last, objectLock, tl, history>>

\* A thread running Python code gives the GIL up (switch interval, blocking
\* Python call, end of the thread).
DropGIL(t) ==
  /\ pc[t] = "py" /\ gil = t
  /\ gil' = NoThread
  /\ pc' = [pc EXCEPT ![t] = "idle"]
  /\ UNCHANGED <<streamVars, last, objectLock, tl, history>>

\* A method that starts without the GIL.
CanCall_withoutGIL(t, m) ==
  pc[t] \in {"idle", "py"} /\ mode = m /\ CallsOf(t) < CallsPerThread

CanCall(t, m) == pc[t] = "py" /\ gil = t /\ mode = m /\ CallsOf(t) < CallsPerThread

Calling(op, arg, shape, sampleType) ==
  [op |-> op, arg |-> arg, shape |-> shape, sampleType |-> sampleType,
   start |-> 0, frames |-> 0, io |-> "none"]

\* ---- ReadableAudioFile::read -------------------------------------------
\* read(n) up to the ScopedLock: the zero-frame check.
CallRead(t, n) ==
  /\ CanCall(t, "r")
  /\ IF n = 0
     THEN /\ history' = Append(history,
                 [thread |-> t, op |-> "read", arg |-> n, shape |-> NoShape,
                  result |-> "ValidationError", start |-> 0, frames |-> 0])
          /\ UNCHANGED <<pc, tl>>
     ELSE /\ pc' = [pc EXCEPT ![t] = "read_lock"]
          /\ tl' = [tl EXCEPT ![t] = Calling("read", n, NoShape, "none")]
          /\ UNCHANGED history
  /\ UNCHANGED <<streamVars, last, gil, objectLock>>

\* From the ScopedLock to the gil_scoped_release: the closed check, the
\* frame count, the allocation of the array.
ReadEnter(t) ==
  /\ pc[t] = "read_lock" /\ CanEnter(t)
  /\ IF ~reader
     THEN /\ Return(t, "ClosedStreamError", 0)
          /\ objectLock' = (IF Nested(t) THEN Exited ELSE objectLock)
          /\ UNCHANGED gil
     ELSE IF ArrayFrames(ActualFrames(tl[t].arg)) < 0
     THEN /\ Return(t, "ValueError", 0)
          /\ objectLock' = (IF Nested(t) THEN Exited ELSE objectLock)
          /\ UNCHANGED gil
     ELSE /\ objectLock' = Entered(t)
          /\ gil' = NoThread
          /\ tl' = [tl EXCEPT ![t].start = currentPosition,
                              ![t].frames = ActualFrames(tl[t].arg)]
          /\ pc' = [pc EXCEPT ![t] = "read_io"]
          /\ UNCHANGED history
  /\ UNCHANGED <<streamVars, last>>

\* The GIL-free part: the backend read and the conversion.
ReadIO(t, ok) ==
  /\ pc[t] = "read_io"
  /\ tl' = [tl EXCEPT ![t].io = ReadBackend(ok)]
  /\ pc' = [pc EXCEPT ![t] = "read_regil"]
  /\ UNCHANGED <<streamVars, last, gil, objectLock, history>>

\* The end of the gil_scoped_release scope, then currentPosition += numSamples
\* and the return (or the exception leaving the method).
ReadReacquire(t) ==
  /\ pc[t] = "read_regil" /\ gil = NoThread
  /\ gil' = t
  /\ objectLock' = (IF Nested(t) THEN Leave(Exited) ELSE Exited)
  /\ IF tl[t].io = "ok"
     THEN /\ currentPosition' = Advance(tl[t].frames)
          /\ Return(t, "ok", ArrayFrames(tl[t].frames))
     ELSE /\ UNCHANGED currentPosition
          /\ Return(t, tl[t].io, 0)
  /\ UNCHANGED <<mode, file, reader, writer, framesWritten, quality, last>>

\* ---- ReadableAudioFile::readRaw ----------------------------------------
\* readRaw(n) on a floating-point file, up to the ScopedLock: the zero-frame
\* check.
CallReadRaw(t, n) ==
  /\ CanCall(t, "r") /\ file.usesFloatingPointData
  /\ IF n = 0
     THEN /\ history' = Append(history,
                 [thread |-> t, op |-> "readRaw", arg |-> n, shape |-> NoShape,
                  result |-> "ValidationError", start |-> 0, frames |-> 0])
          /\ UNCHANGED <<pc, tl>>
     ELSE /\ pc' = [pc EXCEPT ![t] = "rraw_lock"]
          /\ tl' = [tl EXCEPT ![t] = Calling("readRaw", n, NoShape, "none")]
          /\ UNCHANGED history
  /\ UNCHANGED <<streamVars, last, gil, objectLock>>

\* The ScopedLock of readRaw, the closed check, and the call of read(n), which
\* goes for the lock again.
ReadRawEnter(t) ==
  /\ pc[t] = "rraw_lock" /\ CanEnter(t)
  /\ IF ~reader
     THEN Return(t, "ClosedStreamError", 0) /\ UNCHANGED objectLock
     ELSE /\ objectLock' = Entered(t)
          /\ pc' = [pc EXCEPT ![t] = "read_lock"]
          /\ UNCHANGED <<tl, history>>
  /\ UNCHANGED <<streamVars, last, gil>>

\* ---- ReadableAudioFile::close ------------------------------------------
CallReaderClose(t) ==
  /\ CanCall(t, "r")
  /\ pc' = [pc EXCEPT ![t] = "rclose_lock"]
  /\ tl' = [tl EXCEPT ![t] = Calling("close", 0, NoShape, "none")]
  /\ UNCHANGED <<streamVars, last, gil, objectLock, history>>

ReaderCloseEnter(t) ==
  /\ pc[t] = "rclose_lock" /\ CanEnter(t)
  /\ reader' = FALSE
  /\ Return(t, "ok", 0)
  /\ UNCHANGED <<mode, file, currentPosition, writer, framesWritten, quality,
                 last, gil, objectLock>>

\* ---- WriteableAudioFile::write -----------------------------------------
CallWrite(t, sampleType, shape) ==
  /\ CanCall(t, "w")
  /\ pc' = [pc EXCEPT ![t] = "write_lock"]
  /\ tl' = [tl EXCEPT ![t] = Calling("write", 0, shape, sampleType)]
  /\ UNCHANGED <<streamVars, last, gil, objectLock, history>>

\* From the ScopedLock to the gil_scoped_release: the closed check, the
\* buffer request, detectChannelLayout.
WriteEnter(t) ==
  /\ pc[t] = "write_lock" /\ CanEnter(t)
  /\ IF ~writer
     THEN Return(t, "ClosedStreamError", 0) /\ UNCHANGED <<gil, objectLock>>
     ELSE /\ objectLock' = Entered(t)
          /\ gil' = NoThread
          /\ pc' = [pc EXCEPT ![t] = "write_io"]
          /\ UNCHANGED <<tl, history>>
  /\ UNCHANGED <<streamVars, last>>

\* The GIL-free part: the shape checks, the copy loops and the backend
\* writes, framesWritten += numSamples.
WriteIO(t, ok) ==
  /\ pc[t] = "write_io"
  /\ LET out == W_write(tl[t].sampleType, tl[t].shape, ok) IN
       /\ framesWritten' = out.counter
       /\ tl' = [tl EXCEPT ![t].io = out.result,
                           ![t].start = framesWritten,
                           ![t].frames = out.counter - framesWritten]
  /\ pc' = [pc EXCEPT ![t] = "write_regil"]
  /\ UNCHANGED <<mode, file, reader, currentPosition, writer, quality, last,
                 gil, objectLock, history>>

\* The end of the method: the GIL is taken again, then objectLock released.
WriteReacquire(t) ==
  /\ pc[t] = "write_regil" /\ gil = NoThread
  /\ gil' = t
  /\ objectLock' = Exited
  /\ Return(t, tl[t].io, tl[t].frames)
  /\ UNCHANGED <<streamVars, last>>

\* ---- WriteableAudioFile::flush -----------------------------------------
\* flush() up to the ScopedLock: the closed check, made before the lock.
CallFlush(t) ==
  /\ CanCall(t, "w")
  /\ IF ~writer
     THEN /\ history' = Append(history,
                 [thread |-> t, op |-> "flush", arg |-> 0, shape |-> NoShape,
                  result |-> "ClosedStreamError", start |-> 0, frames |-> 0])
          /\ UNCHANGED <<pc, tl>>
     ELSE /\ pc' = [pc EXCEPT ![t] = "flush_lock"]
          /\ tl' = [tl EXCEPT ![t] = Calling("flush", 0, NoShape, "none")]
          /\ UNCHANGED history
  /\ UNCHANGED <<streamVars, last, gil, objectLock>>

FlushEnter(t) ==
  /\ pc[t] = "flush_lock" /\ CanEnter(t)
  /\ objectLock' = Entered(t)
  /\ gil' = NoThread
  /\ pc' = [pc EXCEPT ![t] = "flush_io"]
  /\ UNCHANGED <<streamVars, last, tl, history>>

\* writer->flush(); on a writer that was reset in between this dereferences
\* a null pointer.
FlushIO(t, ok) ==
  /\ pc[t] = "flush_io"
  /\ tl' = [tl EXCEPT ![t].io = IF ~writer THEN "NullDereference"
                                ELSE IF ok THEN "ok" ELSE "IOError"]
  /\ pc' = [pc EXCEPT ![t] = "flush_regil"]
  /\ UNCHANGED <<streamVars, last, gil, objectLock, history>>

FlushReacquire(t) ==
  /\ pc[t] = "flush_regil" /\ gil = NoThread
  /\ gil' = t
  /\ objectLock' = Exited
  /\ Return(t, tl[t].io, 0)
  /\ UNCHANGED <<streamVars, last>>

\* ---- WriteableAudioFile::close -----------------------------------------
\* close() up to the ScopedLock: the closed check, made before the lock.
CallWriterClose(t) ==
  /\ CanCall(t, "w")
  /\ IF ~writer
     THEN /\ history' = Append(history,
                 [thread |-> t, op |-> "close", arg |-> 0, shape |-> NoShape,
                  result |-> "CannotCloseClosed", start |-> 0, frames |-> 0])
          /\ UNCHANGED <<pc, tl>>
     ELSE /\ pc' = [pc EXCEPT ![t] = "wclose_lock"]
          /\ tl' = [tl EXCEPT ![t] = Calling("close", 0, NoShape, "none")]
          /\ UNCHANGED history
  /\ UNCHANGED <<streamVars, last, gil, objectLock>>

\* writer.reset() under the lock.
WriterCloseEnter(t) ==
  /\ pc[t] = "wclose_lock" /\ CanEnter(t)
  /\ writer' = FALSE
  /\ Return(t, "ok", 0)
  /\ UNCHANGED <<mode, file, reader, currentPosition, framesWritten, quality,
                 last, gil, objectLock>>

\* ---- WriteableAudioFile accessors --------------------------------------
\* The properties take no lock and run with the GIL from the closed check to
\* the call on the writer.
CallWriterProperty(t, name) ==
  /\ CanCall(t, "w")
  /\ history' = Append(history,
         [thread |-> t, op |-> name, arg |-> 0, shape |-> NoShape,
          result |-> W_property(name).result, start |-> 0, frames |-> 0])
  /\ UNCHANGED <<streamVars, last, gil, objectLock, pc, tl>>

ConcNext ==
  \E t \in Threads :
    \/ TakeGIL(t)
    \/ DropGIL(t)
    \/ \E n \in ConcFrameArgs : CallRead(t, n)
    \/ ReadEnter(t)
    \/ \E ok \in BOOLEAN : ReadIO(t, ok)
    \/ ReadReacquire(t)
    \/ \E n \in ConcFrameArgs : CallReadRaw(t, n)
    \/ ReadRawEnter(t)
    \/ CallReaderClose(t)
    \/ ReaderCloseEnter(t)
    \/ \E sampleType \in ConcSampleTypes, shape \in ConcShapes :
         CallWrite(t, sampleType, shape)
    \/ WriteEnter(t)
    \/ \E ok \in BOOLEAN : WriteIO(t, ok)
    \/ WriteReacquire(t)
    \/ CallFlush(t)
    \/ FlushEnter(t)
    \/ \E ok \in BOOLEAN : FlushIO(t, ok)
    \/ FlushReacquire(t)
    \/ CallWriterClose(t)
    \/ WriterCloseEnter(t)
    \/ \E name \in {"samplerate", "frames"} : CallWriterProperty(t, name)

ConcSpec == ConcInit /\ [][ConcNext]_vars

(***************************************************************************)
(* Claims about ConcSpec.                                                  *)
(***************************************************************************)
LockLabels == {"read_lock", "rraw_lock", "rclose_lock", "write_lock", "flush_lock", "wclose_lock"}
RegilLabels == {"read_regil", "write_regil", "flush_regil"}

\* Thread a waits for the GIL that b holds while b waits for objectLock that
\* a holds.
LockCycle(a, b) ==
  /\ pc[a] \in RegilLabels /\ gil = b
  /\ pc[b] \in LockLabels /\ objectLock.owner = a /\ objectLock.depth > 0

RECURSIVE FramesRead(_, _)
\* The frames returned by the successful reads among the first k calls that
\* returned.
FramesRead(h, k) ==
  IF k = 0 THEN 0
  ELSE FramesRead(h, k - 1)
         + (IF h[k].op \in {"read", "readRaw"} /\ h[k].result = "ok"
            THEN h[k].frames ELSE 0)

\* Thread t cannot take its next step: it waits for objectLock that another
\* thread owns, or for the GIL that another thread holds.
Stuck(t) ==
  \/ pc[t] \in LockLabels /\ ~CanEnter(t)
  \/ pc[t] \in RegilLabels /\ gil # NoThread

\* The reads that returned have the outcome of the same reads made one after
\* the other: each successful read returns the frames right behind those of
\* the reads that returned before it, as many as a lone read at that position
\* returns, and the position is the start position plus the frames returned.
ReadsSerialized ==
  mode = "r" =>
    /\ \A i \in 1 .. Len(history) :
         (history[i].op = "read" /\ history[i].result = "ok")
           => /\ history[i].start = FramesRead(history, i - 1)
              /\ history[i].frames
                   = Min(history[i].arg, file.lengthInSamples - history[i].start)
    /\ currentPosition = FramesRead(history, Len(history))

\* C9: when two threads are inside read() on one reader at the same time, the
\* two calls have the outcome of some serial order: both go on to return, with
\* disjoint, contiguous frame ranges, and the position ends at the start
\* position plus the frames returned.
C9_ConcurrentReadsSerial ==
  /\ ReadsSerialized
  /\ (\A t \in Threads : tl[t].op = "read") => \E t \in Threads : ~Stuck(t)

\* C10: the two locks never deadlock: no thread waits for the GIL held by a
\* thread that waits for the objectLock the first one holds.
C10_NoLockCycle == \A a, b \in Threads : a # b => ~LockCycle(a, b)

\* C11: no backend call is made through a handle that close() has released:
\* a thread in the GIL-free part of write() or flush() finds the writer still
\* there, and no call dereferenced a null writer.
C11_NoBackendCallOnReleasedHandle ==
  mode = "w" =>
    /\ \A t \in Threads : pc[t] \in {"write_io", "flush_io"} => writer
    /\ \A t \in Threads : tl[t].io # "NullDereference"
    /\ \A i \in 1 .. Len(history) : history[i].result # "NullDereference"

\* flush() has made its backend call while the other thread is inside close(),
\* past its closed check.
C11_Witness ==
  \E a, b \in Threads :
    /\ pc[a] = "flush_regil" /\ tl[a].io = "ok"
    /\ pc[b] = "wclose_lock"
    /\ writer

\* The entries of the history that are close() calls with the given result.
Closes(result) ==
  { i \in 1 .. Len(history) :
      history[i].op = "close" /\ history[i].result = result }

\* Both threads called close() on the writer and made no other call.
BothClosed ==
  /\ mode = "w"
  /\ \A i \in 1 .. Len(history) : history[i].op = "close"
  /\ \A t \in Threads : \E i \in 1 .. Len(history) : history[i].thread = t

\* C35: when two threads call close() on one open writer at the same time,
\* under every interleaving of their steps exactly one call succeeds and every
\* other one fails with the already-closed error; the two calls are never both
\* past the closed check, and writer.reset() releases the handle once.
C35_OneCloseSucceeds ==
  /\ ~(\A t \in Threads : pc[t] = "wclose_lock")
  /\ mode = "w" => Cardinality(Closes("ok")) <= 1
  /\ BothClosed =>
       /\ Cardinality(Closes("ok")) = 1
       /\ Closes("CannotCloseClosed") = (1 .. Len(history)) \ Closes("ok")
       /\ ~writer

\* Both close() calls returned: the first released the handle, the second found
\* the file closed.
C35_Witness ==
  /\ BothClosed
  /\ history[1].result = "ok"
  /\ history[Len(history)].result = "CannotCloseClosed"
  /\ history[1].thread # history[Len(history)].thread

(***************************************************************************)
(* SoloSpec: one thread calls methods of a reader of a floating-point      *)
(* file.  The thread is scheduled whenever it can take a step: weak        *)
(* fairness of its steps.                                                  *)
(***************************************************************************)
SoloThread == "t1"

SoloInit ==
  /\ ConcInit
  /\ mode = "r" /\ file.usesFloatingPointData

SoloNext ==
  \/ TakeGIL(SoloThread)
  \/ DropGIL(SoloThread)
  \/ \E n \in ConcFrameArgs : CallRead(SoloThread, n)
  \/ ReadEnter(SoloThread)
  \/ \E ok \in BOOLEAN : ReadIO(SoloThread, ok)
  \/ ReadReacquire(SoloThread)
  \/ \E n \in ConcFrameArgs : CallReadRaw(SoloThread, n)
  \/ ReadRawEnter(SoloThread)
  \/ CallReaderClose(SoloThread)
  \/ ReaderCloseEnter(SoloThread)

SoloSpec == SoloInit /\ [][SoloNext]_vars /\ WF_vars(SoloNext)

(***************************************************************************)
(* Claims about SoloSpec.                                                  *)
(***************************************************************************)
\* The call that returned last is a readRaw of thread t.
ReadRawReturned(t) ==
  /\ pc[t] = "py"
  /\ history # <<>>
  /\ history[Len(history)].thread = t
  /\ history[Len(history)].op = "readRaw"

====
